---- MODULE Spec2Model ----
(***************************************************************************)
(* A model of zipget-rs: the download cache (download/http.rs), the recipe *)
(* runner and the lock engine (recipe.rs), and the pure helpers they use   *)
(* (utils.rs, crypto.rs, vars.rs).                                         *)
(*                                                                         *)
(* Strings are TLA+ strings; TLC evaluates Len, \o, SubSeq, Head and Tail  *)
(* on them, so the string functions of the program are computed character  *)
(* by character as the code computes them.  An Option is a tuple: None is  *)
(* << >> and Some(x) is << x >>.                                           *)
(***************************************************************************)
EXTENDS Integers, Sequences, FiniteSets, TLC

None == << >>
Some(x) == << x >>
IsSome(o) == o # << >>
Unwrap(o) == o[1]

(***************************************************************************)
(* Bounds of the model.                                                    *)
(***************************************************************************)
\* the longest response body / source file, in bytes (one byte per write)
MaxBodyLen == 2
\* the number of workers that fetch the same URL at the same time
MaxWorkers == 2
\* the number of recipe runs and fetch commands, one after the other
MaxOps == 2
\* the number of fragments an input of substitute is put together from
MaxTokens == 3
\* the number of --set overrides on the command line
MaxOverrides == 2
\* the number of entries of an archive
MaxEntries == 2
\* the number of assets of a release the selection is tried on
MaxAssets == 3

(***************************************************************************)
(* String primitives (Rust's str methods).                                 *)
(***************************************************************************)
Char(s, i) == SubSeq(s, i, i)

StartsWith(s, p) == Len(s) >= Len(p) /\ SubSeq(s, 1, Len(p)) = p

EndsWith(s, p) == Len(s) >= Len(p) /\ SubSeq(s, Len(s) - Len(p) + 1, Len(s)) = p

Contains(s, p) == \E i \in 1..(Len(s) - Len(p) + 1) : SubSeq(s, i, i + Len(p) - 1) = p

\* the position of the first / last occurrence of the character c, 0 when absent
Occurrences(s, c) == {i \in 1..Len(s) : Char(s, i) = c}

IndexOf(s, c) ==
  LET occ == Occurrences(s, c)
  IN  IF occ = {} THEN 0 ELSE CHOOSE i \in occ : \A j \in occ : i <= j

LastIndexOf(s, c) ==
  LET occ == Occurrences(s, c)
  IN  IF occ = {} THEN 0 ELSE CHOOSE i \in occ : \A j \in occ : i >= j

\* s.split(c).next_back(): the text after the last c, all of s when there is none
SplitLast(s, c) == SubSeq(s, LastIndexOf(s, c) + 1, Len(s))

\* s.split(c).next(): the text before the first c, all of s when there is none
SplitFirst(s, c) == IF IndexOf(s, c) = 0 THEN s ELSE SubSeq(s, 1, IndexOf(s, c) - 1)

UpperChars == "ABCDEFGHIJKLMNOPQRSTUVWXYZ"
LowerChars == "abcdefghijklmnopqrstuvwxyz"

LowerChar(c) ==
  IF IndexOf(UpperChars, c) = 0 THEN c ELSE Char(LowerChars, IndexOf(UpperChars, c))

RECURSIVE to_lowercase(_)
to_lowercase(s) == IF s = "" THEN "" ELSE LowerChar(Char(s, 1)) \o to_lowercase(Tail(s))

(***************************************************************************)
(* crypto.rs.  SHA-256 is modelled as a collision-free function into       *)
(* lower-case hex strings: the digest of a text is the hex code of its     *)
(* characters, the digest of a file the hex code of its bytes.             *)
(***************************************************************************)
HexDigits == "0123456789abcdef"
Alphabet == "abcdefghijklmnopqrstuvwxyzABCDEFGHIJKLMNOPQRSTUVWXYZ0123456789:/._-?=$~{}"

HexDigit(n) == Char(HexDigits, n + 1)

HexOfChar(c) ==
  LET code == IndexOf(Alphabet, c)
  IN  HexDigit(code \div 16) \o HexDigit(code % 16)

RECURSIVE compute_sha256_from_bytes(_)
compute_sha256_from_bytes(data) ==
  IF data = "" THEN "" ELSE HexOfChar(Char(data, 1)) \o compute_sha256_from_bytes(Tail(data))

\* the digest of a file, given its content (a sequence of bytes)
RECURSIVE compute_sha256(_)
compute_sha256(content) ==
  IF content = << >> THEN "e3" ELSE compute_sha256(SubSeq(content, 1, Len(content) - 1)) \o HexDigit(content[Len(content)])

\* a comparison of the expected digest with itself
verify_sha256_Self(content, expected_sha) == to_lowercase(expected_sha) = to_lowercase(expected_sha)

\* verify_sha256: the expected digest is lower-cased before the comparison
verify_sha256(content, expected_sha) == compute_sha256(content) = to_lowercase(expected_sha)

(***************************************************************************)
(* utils.rs, cache.rs and the std::path methods the download code uses.    *)
(***************************************************************************)
is_s3_url(u) == StartsWith(u, "s3://")

get_filename_from_url(u) ==
  IF StartsWith(u, "s3://") THEN SplitLast(u, "/") ELSE SplitFirst(SplitLast(u, "/"), "?")

\* get_cache_dir: <temp dir>/zipget-cache
get_cache_dir == "/tmp/zipget-cache"

\* Path::join of a directory and a relative name
PathJoin(d, name) == d \o "/" \o name

\* Path::file_name: the last component, a trailing separator not counted
PathFileName(p) == SplitLast(IF EndsWith(p, "/") THEN SubSeq(p, 1, Len(p) - 1) ELSE p, "/")

\* Path::extension: the text after the last '.' of the file name; none when the
\* name has no '.' or only a leading one
PathExtension(p) ==
  LET name == PathFileName(p)
  IN  IF LastIndexOf(name, ".") <= 1 THEN None ELSE Some(SplitLast(name, "."))

\* Path::with_extension: the extension, if any, replaced by ext
PathWithExtension(p, ext) ==
  LET stem == IF IsSome(PathExtension(p)) THEN SubSeq(p, 1, LastIndexOf(p, ".") - 1) ELSE p
  IN  IF ext = "" THEN stem ELSE stem \o "." \o ext

\* the cache key: format!("{url_hash}_{filename}")
cached_filename(download_url) ==
  compute_sha256_from_bytes(download_url) \o "_" \o get_filename_from_url(download_url)

cached_file_path(download_url) == PathJoin(get_cache_dir, cached_filename(download_url))

\* a download that writes the body straight to the final path
temp_path_Direct(path) == path

\* download_http_file: the temporary file beside the final path
temp_path(path) ==
  LET ext == PathExtension(path)
  IN  PathWithExtension(path, (IF IsSome(ext) THEN Unwrap(ext) ELSE "download") \o ".tmp")

\* download_file: the transport chosen from the URL
Transport(u) ==
  IF StartsWith(u, "/") \/ StartsWith(u, ".") THEN "local"
  ELSE IF is_s3_url(u) THEN "s3"
  ELSE "http"

(***************************************************************************)
(* vars.rs.  A Result is a record: ok, the value, the error message.       *)
(***************************************************************************)
Ok(x) == [ok |-> TRUE, val |-> x, err |-> ""]
Err(msg) == [ok |-> FALSE, val |-> "", err |-> msg]

\* the platform the program was built for (std::env::consts) and its environment
OS == "linux"
ARCH == "x86_64"
HomeDir == "/h"
RecipeDir == "."
EnvVars == [HOME |-> "/h"]

\* a context in which the built-ins go over the recipe's vars
VarContext_BuiltinFirst(recipe_vars) ==
  LET builtin == [os |-> OS, arch |-> ARCH, home |-> HomeDir, recipe_dir |-> RecipeDir]
  IN  [k \in DOMAIN builtin \cup DOMAIN recipe_vars |->
         IF k \in DOMAIN builtin THEN builtin[k] ELSE recipe_vars[k]]

\* VarContext::new: built-ins, then the recipe's vars over them (no --set here)
VarContext(recipe_vars) ==
  LET builtin == [os |-> OS, arch |-> ARCH, home |-> HomeDir, recipe_dir |-> RecipeDir]
  IN  [k \in DOMAIN builtin \cup DOMAIN recipe_vars |->
         IF k \in DOMAIN recipe_vars THEN recipe_vars[k] ELSE builtin[k]]

\* vars.insert(key, value)
Inserted(m, key, value) == [k \in DOMAIN m \cup {key} |-> IF k = key THEN value ELSE m[k]]

\* parse_key_value: s.splitn(2, '='), an error when there is no '='
parse_key_value(s) ==
  IF IndexOf(s, "=") = 0 THEN Err("Expected format 'key=value'")
  ELSE Ok([key |-> SubSeq(s, 1, IndexOf(s, "=") - 1),
           value |-> SubSeq(s, IndexOf(s, "=") + 1, Len(s))])

\* VarContext::new, the loop over the CLI overrides, in their order
RECURSIVE ApplyOverrides(_, _)
Overridden(m, kv, more) ==
  IF ~kv.ok THEN Err("Invalid --set format")
  ELSE ApplyOverrides(Inserted(m, kv.val.key, kv.val.value), more)

ApplyOverrides(m, cli_overrides) ==
  IF cli_overrides = << >> THEN Ok(m)
  ELSE Overridden(m, parse_key_value(Head(cli_overrides)), Tail(cli_overrides))

\* VarContext::new with its CLI overrides
VarContextNew(recipe_vars, cli_overrides) == ApplyOverrides(VarContext(recipe_vars), cli_overrides)

resolve_var(ctx, name) ==
  IF StartsWith(name, "env.")
  THEN IF SubSeq(name, 5, Len(name)) \in DOMAIN EnvVars
       THEN Ok(EnvVars[SubSeq(name, 5, Len(name))])
       ELSE Err("Environment variable not set")
  ELSE IF name \in DOMAIN ctx THEN Ok(ctx[name]) ELSE Err("Undefined variable")

\* an expansion of every "~" of the string
RECURSIVE expand_tilde_Everywhere(_, _)
expand_tilde_Everywhere(ctx, input) ==
  IF input = "" THEN ""
  ELSE (IF Char(input, 1) = "~" /\ "home" \in DOMAIN ctx THEN ctx["home"] ELSE Char(input, 1))
       \o expand_tilde_Everywhere(ctx, Tail(input))

expand_tilde(ctx, input) ==
  IF StartsWith(input, "~/") /\ "home" \in DOMAIN ctx THEN ctx["home"] \o Tail(input)
  ELSE IF input = "~" /\ "home" \in DOMAIN ctx THEN ctx["home"]
  ELSE input

\* result.push_str(text), then the rest of the loop
Pushed(text, more) == IF more.ok THEN Ok(text \o more.val) ELSE more

\* the loop of substitute over the characters that are left: "$$" gives "$",
\* "${name}" the value of name (take_while reads to the "}" or to the end), any
\* other character itself
RECURSIVE SubstituteChars(_, _)
\* a substitution that scans the value it has inserted
SubstituteVar_Rescan(ctx, var_name, value, after) ==
  IF var_name = "" THEN Err("Empty variable name")
  ELSE IF ~value.ok THEN Err("Failed to resolve variable")
  ELSE SubstituteChars(ctx, value.val \o after)

SubstituteVar(ctx, var_name, value, after) ==
  IF var_name = "" THEN Err("Empty variable name")
  ELSE IF ~value.ok THEN Err("Failed to resolve variable")
  ELSE Pushed(value.val, SubstituteChars(ctx, after))

SubstituteBraces(ctx, body, close) ==
  IF close = 0
  THEN SubstituteVar(ctx, body, resolve_var(ctx, body), "")
  ELSE SubstituteVar(ctx, SubSeq(body, 1, close - 1), resolve_var(ctx, SubSeq(body, 1, close - 1)),
                     SubSeq(body, close + 1, Len(body)))

\* an escape that looks the name up when braces follow
Escaped_Lookup(ctx, rest) ==
  IF StartsWith(rest, "{")
  THEN SubstituteBraces(ctx, Tail(rest), IndexOf(Tail(rest), "}"))
  ELSE Pushed("$", SubstituteChars(ctx, rest))

\* "$$": a "$" is pushed, with or without a "{" behind it
Escaped(ctx, rest) == Pushed("$", SubstituteChars(ctx, rest))

SubstituteChars(ctx, s) ==
  IF s = "" THEN Ok("")
  ELSE IF StartsWith(s, "$$") THEN Escaped(ctx, SubSeq(s, 3, Len(s)))
  ELSE IF StartsWith(s, "${")
  THEN SubstituteBraces(ctx, SubSeq(s, 3, Len(s)), IndexOf(SubSeq(s, 3, Len(s)), "}"))
  ELSE Pushed(Char(s, 1), SubstituteChars(ctx, Tail(s)))

\* a tilde expansion of the expanded string
Expanded_Twice(ctx, r) == IF r.ok THEN Ok(expand_tilde(ctx, expand_tilde(ctx, r.val))) ELSE r

\* the tilde expansion of what the loop produced
Expanded(ctx, r) == IF r.ok THEN Ok(expand_tilde(ctx, r.val)) ELSE r

substitute(ctx, input) == Expanded(ctx, SubstituteChars(ctx, input))

\* Result<String> to Result<Option<String>>
AsSome(r) == IF r.ok THEN Ok(Some(r.val)) ELSE Err(r.err)

OkNone == [ok |-> TRUE, val |-> None, err |-> ""]

\* Option<String>::map(substitute).transpose()
SubstituteOpt(ctx, o) == IF IsSome(o) THEN AsSome(substitute(ctx, Unwrap(o))) ELSE OkNone

(***************************************************************************)
(* models.rs and substitute_fetch_item (recipe.rs).                        *)
(***************************************************************************)
GitHubFetch(repo, asset, tag) == [repo |-> repo, asset |-> asset, tag |-> tag]

LockInfo(sha, download_url) == [sha |-> sha, download_url |-> download_url]

\* a FetchItem with nothing set
EmptyItem ==
  [url |-> None, github |-> None, unzip_to |-> None, save_as |-> None, files |-> None,
   profile |-> None, install_exes |-> None, no_shim |-> None, lock |-> None,
   executable |-> None]

\* the GitHubFetch of the substituted fields, or the first error
SubstitutedGitHub(repo, asset, tag) ==
  IF repo.ok /\ asset.ok /\ tag.ok
  THEN Ok(GitHubFetch(repo.val, asset.val, tag.val))
  ELSE Err("substitution failed")

substitute_github_fetch(github, ctx) ==
  SubstitutedGitHub(substitute(ctx, github.repo), SubstituteOpt(ctx, github.asset),
                    SubstituteOpt(ctx, github.tag))

\* the FetchItem of the substituted fields, or the first error; profile,
\* install_exes, no_shim, lock and executable are copied as they are
SubstitutedItem(item, url, github, unzip_to, save_as, files) ==
  IF url.ok /\ github.ok /\ unzip_to.ok /\ save_as.ok /\ files.ok
  THEN Ok([item EXCEPT !.url = url.val, !.github = github.val, !.unzip_to = unzip_to.val,
                       !.save_as = save_as.val, !.files = files.val])
  ELSE Err("substitution failed")

substitute_fetch_item(item, ctx) ==
  SubstitutedItem(item,
                  SubstituteOpt(ctx, item.url),
                  IF IsSome(item.github) THEN AsSome(substitute_github_fetch(Unwrap(item.github), ctx))
                  ELSE OkNone,
                  SubstituteOpt(ctx, item.unzip_to),
                  SubstituteOpt(ctx, item.save_as),
                  SubstituteOpt(ctx, item.files))

(***************************************************************************)
(* The origin: what the web servers and the GitHub release API answer.     *)
(* The files do not change while the model runs; a new release may be     *)
(* published between two requests of an item.                              *)
(***************************************************************************)
GitHubAsset(name, url, size) == [name |-> name, browser_download_url |-> url, size |-> size]

Repo == "o/t"

\* the releases of Repo by tag; the second one is the latest release
Releases ==
  [v1 |-> [tag_name |-> "v1",
           assets |-> << GitHubAsset("t-win.zip", "h://g/v1/t-win.zip", 2000),
                         GitHubAsset("t-linux.tgz", "h://g/v1/t-linux.tgz", 2000) >>],
   v2 |-> [tag_name |-> "v2",
           assets |-> << GitHubAsset("t-win.zip", "h://g/v2/t-win.zip", 2000),
                         GitHubAsset("t-linux.tgz", "h://g/v2/t-linux.tgz", 2000) >>]]

LatestTag == "v2"

\* the latest release before the second one was published
EarlierTag == "v1"

\* GET releases/latest or releases/tags/{tag} while the API answers: the release,
\* or an error status
ReleaseByTag(repo, t) ==
  IF repo = Repo /\ t \in DOMAIN Releases THEN Ok(Releases[t])
  ELSE Err("GitHub API request failed with status")

\* the answer while latest is the latest release
ReleaseInfoAt(repo, tag, latest) == ReleaseByTag(repo, IF IsSome(tag) THEN Unwrap(tag) ELSE latest)

ReleaseInfo(repo, tag) == ReleaseInfoAt(repo, tag, LatestTag)

\* the bytes each URL serves
Origin ==
  [u \in {"h://x/a.zip", "h://m/a.zip", "h://g/v1/t-linux.tgz", "h://g/v1/t-win.zip"} |-> << 1 >>]
  @@ [u \in {"h://g/v2/t-linux.tgz", "h://g/v2/t-win.zip"} |-> << 2 >>]

(***************************************************************************)
(* recipe.rs: from a github table to a download URL.  The parameter api    *)
(* says whether the request to the release API got through.                *)
(***************************************************************************)
Min(S) == CHOOSE x \in S : \A y \in S : x <= y

\* release.tag_name of the answer
TagNameOf(release) == IF release.ok THEN Ok(release.val.tag_name) ELSE Err(release.err)

get_latest_github_tag(repo, api) ==
  IF ~api THEN Err("Failed to fetch latest release") ELSE TagNameOf(ReleaseInfo(repo, None))

\* the download URL of the first of the assets hits, an error when there is none
FirstAssetUrl(assets, hits, msg) ==
  IF hits = {} THEN Err(msg) ELSE Ok(assets[Min(hits)].browser_download_url)

\* the first asset whose lower-cased name contains the lower-cased asset_name
AssetUrlIn(release, wanted) ==
  IF ~release.ok THEN Err(release.err)
  ELSE FirstAssetUrl(release.val.assets,
                     {i \in DOMAIN release.val.assets :
                        Contains(to_lowercase(release.val.assets[i].name), wanted)},
                     "Asset not found in release assets")

\* get_github_release_url while latest is the latest release
GithubReleaseUrlAt(repo, asset_name, tag, api, latest) ==
  IF ~api THEN Err("Failed to fetch release info")
  ELSE AssetUrlIn(ReleaseInfoAt(repo, tag, latest), to_lowercase(asset_name))

get_github_release_url(repo, asset_name, tag, api) ==
  GithubReleaseUrlAt(repo, asset_name, tag, api, LatestTag)

\* the priority patterns of find_best_matching_binary
Patterns(os, arch) ==
  IF os = "windows" /\ arch = "x86_64"
  THEN << "windows-x86_64", "win64", "windows-amd64", "x86_64-pc-windows", "windows", "win", "x64", "amd64" >>
  ELSE IF os = "windows" /\ arch = "x86"
  THEN << "windows-i686", "win32", "windows-x86", "i686-pc-windows", "windows", "win", "x86", "i386" >>
  ELSE IF os = "linux" /\ arch = "x86_64"
  THEN << "linux-x86_64", "linux-amd64", "x86_64-unknown-linux", "linux64", "linux", "x64", "amd64" >>
  ELSE IF os = "linux" /\ arch = "aarch64"
  THEN << "linux-aarch64", "linux-arm64", "aarch64-unknown-linux", "linux", "arm64" >>
  ELSE IF os = "macos" /\ arch = "x86_64"
  THEN << "darwin-x86_64", "macos-x86_64", "x86_64-apple-darwin", "osx-x64", "darwin", "macos", "osx", "mac" >>
  ELSE IF os = "macos" /\ arch = "aarch64"
  THEN << "darwin-aarch64", "macos-aarch64", "aarch64-apple-darwin", "darwin-arm64", "darwin", "macos", "osx", "mac", "arm64" >>
  ELSE << "universal", "any" >>

RECURSIVE SumOver(_, _)
SumOver(S, f) ==
  IF S = {} THEN 0 ELSE LET x == CHOOSE y \in S : TRUE IN f[x] + SumOver(S \ {x}, f)

\* the filter: an archive, or a name without a dot and more than 1000 bytes
IsCandidateName(name_lower, size) ==
  \/ EndsWith(name_lower, ".zip")
  \/ EndsWith(name_lower, ".tar.gz")
  \/ EndsWith(name_lower, ".tgz")
  \/ (~Contains(name_lower, ".") /\ size > 1000)

IsCandidate(asset) == IsCandidateName(to_lowercase(asset.name), asset.size)

\* 100 - i for every pattern (index i from 0) the name contains
PatternScore(matched) == SumOver(matched, [i \in matched |-> 100 - (i - 1)])

\* the pattern score, 10 for the platform's archive format, 5 for less than 50 MB
ScoreOfName(name_lower, size, os, patterns) ==
  PatternScore({i \in DOMAIN patterns : Contains(name_lower, patterns[i])})
  + (IF \/ (os = "windows" /\ EndsWith(name_lower, ".zip"))
        \/ (os # "windows" /\ (EndsWith(name_lower, ".tar.gz") \/ EndsWith(name_lower, ".tgz")))
     THEN 10 ELSE 0)
  + (IF size < 50000000 THEN 5 ELSE 0)

AssetScore(asset, os, arch) ==
  ScoreOfName(to_lowercase(asset.name), asset.size, os, Patterns(os, arch))

\* the first of the sorted candidates, when its score is positive
TopAsset(assets, score, best) == IF score[best] > 0 THEN Some(assets[best].name) ELSE None

\* the stable sort by descending score puts first the earliest asset of the
\* highest score
BestScored(assets, kept, score) ==
  IF kept = {} THEN None
  ELSE TopAsset(assets, score, Min({i \in kept : \A j \in kept : score[j] <= score[i]}))

BestCandidate(assets, kept) ==
  BestScored(assets, kept, [i \in kept |-> AssetScore(assets[i], OS, ARCH)])

find_best_matching_binary(assets) ==
  BestCandidate(assets, {i \in DOMAIN assets : IsCandidate(assets[i])})

(***************************************************************************)
(* download/github.rs: find_best_matching_binary, the selection the fetch  *)
(* commands use.                                                           *)
(***************************************************************************)
os_patterns(os) ==
  IF os = "windows" THEN << "windows", "win", "pc-windows", "msvc" >>
  ELSE IF os = "linux" THEN << "linux", "unknown-linux", "gnu" >>
  ELSE IF os = "macos" THEN << "darwin", "macos", "apple" >>
  ELSE << os >>

arch_patterns(arch) ==
  IF arch = "x86_64" THEN << "x86_64", "amd64", "x64", "64" >>
  ELSE IF arch = "x86" THEN << "x86", "i386", "i686", "32", "win32" >>
  ELSE IF arch = "aarch64" THEN << "aarch64", "arm64", "armv8" >>
  ELSE IF arch = "arm" THEN << "arm", "armv7", "armhf" >>
  ELSE << arch >>

wrong_arch_patterns(arch) ==
  IF arch = "x86_64" THEN {"aarch64", "arm64", "armv7", "armhf", "i386", "i686"}
  ELSE IF arch = "aarch64" THEN {"x86_64", "amd64", "i386", "i686"}
  ELSE IF arch = "x86" THEN {"x86_64", "amd64", "aarch64", "arm64"}
  ELSE IF arch = "arm" THEN {"x86_64", "amd64", "aarch64", "arm64", "i386", "i686"}
  ELSE {}

wrong_os_patterns(os) ==
  IF os = "linux" THEN {"windows", "win32", "win64", "darwin", "macos", "apple"}
  ELSE IF os = "windows" THEN {"linux", "darwin", "macos", "apple"}
  ELSE IF os = "macos" THEN {"linux", "windows", "win32", "win64"}
  ELSE {}

\* the loop over the patterns with its break: the index, from 0, of the first
\* pattern the name contains, -1 when it contains none
FirstMatch(name_lower, patterns) ==
  IF \A i \in DOMAIN patterns : ~Contains(name_lower, patterns[i]) THEN -1
  ELSE Min({i \in DOMAIN patterns : Contains(name_lower, patterns[i])}) - 1

\* the score of one asset
GithubScoreOf(name_lower, os, arch, i_os, i_arch) ==
  (IF i_os >= 0 THEN 100 - i_os * 10 ELSE 0)
  + (IF i_arch >= 0 THEN 50 - i_arch * 5 ELSE 0)
  + (IF os = "linux" /\ Contains(name_lower, "musl") THEN 25 ELSE 0)
  - (IF \E w \in wrong_arch_patterns(arch) : Contains(name_lower, w) THEN 100 ELSE 0)
  - (IF \E w \in wrong_os_patterns(os) : Contains(name_lower, w) THEN 100 ELSE 0)
  + (IF \/ EndsWith(name_lower, ".zip") \/ EndsWith(name_lower, ".tar.gz")
        \/ EndsWith(name_lower, ".tgz") \/ EndsWith(name_lower, ".tar.zst")
     THEN 10 ELSE 0)
  - (IF Contains(name_lower, "src") \/ Contains(name_lower, "source") THEN 50 ELSE 0)
  - (IF Contains(name_lower, "debug") \/ Contains(name_lower, "symbols") THEN 30 ELSE 0)

GithubScoreOfName(name_lower, os, arch) ==
  GithubScoreOf(name_lower, os, arch, FirstMatch(name_lower, os_patterns(os)),
                FirstMatch(name_lower, arch_patterns(arch)))

GithubScore(asset, os, arch) == GithubScoreOfName(to_lowercase(asset.name), os, arch)

\* the loop over the assets: a score above the best one so far takes its place
RECURSIVE GithubBest(_, _, _, _)
GithubTaken(assets, score, best_score, best_asset, i) ==
  IF score > best_score
  THEN GithubBest(assets, score, Some(assets[i].name), i + 1)
  ELSE GithubBest(assets, best_score, best_asset, i + 1)

GithubBest(assets, best_score, best_asset, i) ==
  IF i > Len(assets) THEN best_asset
  ELSE GithubTaken(assets, GithubScore(assets[i], OS, ARCH), best_score, best_asset, i)

github_find_best_matching_binary(assets) == GithubBest(assets, 0, None, 1)

guess_binary_name == IF OS = "windows" THEN "windows" ELSE "linux"

\* the URL found, with the tag of the release it is in
TaggedUrl(r, tag_name) == IF r.ok THEN Ok([url |-> r.val, tag_name |-> tag_name]) ELSE r

\* the exact-name search for the asset that was chosen
NamedAsset(release, best_asset) ==
  TaggedUrl(FirstAssetUrl(release.assets,
                          {i \in DOMAIN release.assets : release.assets[i].name = best_asset},
                          "Selected asset not found in release assets"),
            release.tag_name)

BestName(found) == IF IsSome(found) THEN Unwrap(found) ELSE guess_binary_name

BestAssetIn(release) ==
  IF ~release.ok THEN Err(release.err)
  ELSE NamedAsset(release.val, BestName(find_best_matching_binary(release.val.assets)))

\* get_best_binary_from_release followed by the exact-name search of its caller
BestAssetUrlAt(repo, tag, api, latest) ==
  IF ~api THEN Err("Failed to fetch release info") ELSE BestAssetIn(ReleaseInfoAt(repo, tag, latest))

BestAssetUrl(repo, tag, api) == BestAssetUrlAt(repo, tag, api, LatestTag)

(***************************************************************************)
(* recipe.rs: one item.  The operators take the cache (c: path ->          *)
(* content), the files saved so far (sv) and the extractions done so far   *)
(* (ex), and return them as the item leaves them.                          *)
(* The parameter fault names the step at which the environment fails:      *)
(*   "api"     the first request to the release API                        *)
(*   "api2"    the request of get_latest_github_tag                        *)
(*   "release" no failure: a release is published after the first request  *)
(*             to the release API, which still saw the earlier one         *)
(*   "dl"      the transport, before anything is written                   *)
(*   "partial" the transport, part-way through the copy                    *)
(*   "save"    the copy to save_as                                         *)
(*   "extract" the extraction of the archive                               *)
(***************************************************************************)
Faults == {"none", "api", "api2", "release", "dl", "partial", "save", "extract"}

\* the cache paths of the URLs of the origin
CachePaths == [u \in DOMAIN Origin |-> cached_file_path(u)]

CachePathOf(u) == IF u \in DOMAIN CachePaths THEN CachePaths[u] ELSE cached_file_path(u)

\* a Result<String> as the outcome of a resolution that sent one API request
Resolved(r) == [ok |-> r.ok, url |-> r.val, err |-> r.err, api |-> 1]

UrlOf(b) == IF b.ok THEN Ok(b.val.url) ELSE Err(b.err)

\* the github branch of process_fetch_item: the named asset, or the best one
ResolveGitHub(github, api) ==
  Resolved(IF IsSome(github.asset)
           THEN get_github_release_url(github.repo, Unwrap(github.asset), github.tag, api)
           ELSE UrlOf(BestAssetUrl(github.repo, github.tag, api)))

NoSource ==
  [ok |-> FALSE, url |-> "", err |-> "FetchItem must have either 'url' or 'github' specified", api |-> 0]

\* a choice that looks at url and github before lock.download_url
ResolveNormal_UrlFirst(item, api) ==
  IF IsSome(item.url)
  THEN [ok |-> TRUE, url |-> Unwrap(item.url), err |-> "", api |-> 0]
  ELSE IF IsSome(item.github)
  THEN ResolveGitHub(Unwrap(item.github), api)
  ELSE IF IsSome(item.lock) /\ IsSome(Unwrap(item.lock).download_url)
  THEN [ok |-> TRUE, url |-> Unwrap(Unwrap(item.lock).download_url), err |-> "", api |-> 0]
  ELSE NoSource

\* process_fetch_item, the choice of the download URL: lock.download_url, then
\* url, then github
ResolveNormal(item, api) ==
  IF IsSome(item.lock) /\ IsSome(Unwrap(item.lock).download_url)
  THEN [ok |-> TRUE, url |-> Unwrap(Unwrap(item.lock).download_url), err |-> "", api |-> 0]
  ELSE IF IsSome(item.url)
  THEN [ok |-> TRUE, url |-> Unwrap(item.url), err |-> "", api |-> 0]
  ELSE IF IsSome(item.github)
  THEN ResolveGitHub(Unwrap(item.github), api)
  ELSE NoSource

\* the named asset in lock mode: the URL, and the latest tag when none is given
\* (a failure of get_latest_github_tag leaves the tag unresolved)
NamedForLock(github, r, t) ==
  IF ~r.ok
  THEN [ok |-> FALSE, url |-> "", resolved_tag |-> None, err |-> r.err, api |-> 1]
  ELSE IF IsSome(github.tag)
  THEN [ok |-> TRUE, url |-> r.val, resolved_tag |-> None, err |-> "", api |-> 1]
  ELSE [ok |-> TRUE, url |-> r.val,
        resolved_tag |-> IF t.ok THEN Some(t.val) ELSE None, err |-> "", api |-> 2]

\* the best asset in lock mode: the URL, and the tag of the release it came from
BestForLock(github, b) ==
  IF ~b.ok
  THEN [ok |-> FALSE, url |-> "", resolved_tag |-> None, err |-> b.err, api |-> 1]
  ELSE [ok |-> TRUE, url |-> b.val.url,
        resolved_tag |-> IF IsSome(github.tag) THEN None ELSE Some(b.val.tag_name),
        err |-> "", api |-> 1]

\* first_latest is the latest release at the first request; the request of
\* get_latest_github_tag comes after it
ResolveGitHubForLock(github, api, api2, first_latest) ==
  IF IsSome(github.asset)
  THEN NamedForLock(github,
                    GithubReleaseUrlAt(github.repo, Unwrap(github.asset), github.tag, api, first_latest),
                    get_latest_github_tag(github.repo, api2))
  ELSE BestForLock(github, BestAssetUrlAt(github.repo, github.tag, api, first_latest))

\* process_fetch_item_for_lock, the choice of the download URL: url, then github
ResolveForLock(item, api, api2, first_latest) ==
  IF IsSome(item.url)
  THEN [ok |-> TRUE, url |-> Unwrap(item.url), resolved_tag |-> None, err |-> "", api |-> 0]
  ELSE IF IsSome(item.github)
  THEN ResolveGitHubForLock(Unwrap(item.github), api, api2, first_latest)
  ELSE [ok |-> FALSE, url |-> "", resolved_tag |-> None,
        err |-> "FetchItem must have either 'url' or 'github' specified", api |-> 0]

\* a file of the given content under the path, in place of what was there
SaveFile(sv, path, content) ==
  [p \in DOMAIN sv \cup {path} |-> IF p = path THEN content ELSE sv[p]]

\* http::download_file as a whole, on the files c (path -> content): the HTTP
\* and S3 transports leave the complete file or nothing under the path; the local
\* copy writes to the path itself and leaves what it had written when it fails
\* part-way
download_file(url, path, fault, c) ==
  LET served == url \in DOMAIN Origin
      body == IF served THEN Origin[url] ELSE << >>
  IN  IF ~served \/ fault = "dl" THEN [ok |-> FALSE, files |-> c]
      ELSE IF fault = "partial"
      THEN [ok |-> FALSE,
            files |-> IF Transport(url) = "local"
                      THEN SaveFile(c, path, SubSeq(body, 1, Len(body) - 1))
                      ELSE c]
      ELSE [ok |-> TRUE, files |-> SaveFile(c, path, body)]

\* the outcome of the download into the cache
Downloaded(path, dl) == [ok |-> dl.ok, hit |-> FALSE, path |-> path, files |-> dl.files]

\* a fetch that does not look into the cache
FetchAt_Refetch(download_url, path, fault, c) ==
  Downloaded(path, download_file(download_url, path, fault, c))

\* the cache lookup and the download behind it
FetchAt(download_url, path, fault, c) ==
  IF path \in DOMAIN c
  THEN [ok |-> TRUE, hit |-> TRUE, path |-> path, files |-> c]
  ELSE Downloaded(path, download_file(download_url, path, fault, c))

FetchToCache(download_url, fault, c) == FetchAt(download_url, CachePathOf(download_url), fault, c)

\* extract_archive: the format is read from the name of the cached file
ArchiveFormat(path) ==
  IF PathExtension(path) = Some("zip") THEN "zip"
  ELSE IF EndsWith(PathFileName(path), ".tar.gz") \/ PathExtension(path) = Some("tgz") THEN "tar.gz"
  ELSE IF EndsWith(PathFileName(path), ".tar.zst") THEN "tar.zst"
  ELSE "unknown"

\* what an item's processing returns and leaves behind
\*   ok, err        the Result
\*   url            the download URL it resolved ("" when it did not get there)
\*   api            the number of requests it sent to the release API
\*   hit, transport whether it took a cache hit / called download_file
\*   fetched        the content of the cached file it went on with
\*   started        whether extract_archive was called
\*   warned         whether it printed a warning in place of an error
ItemResult(ok, err, res, f, fetched, sv, ex, started, warned) ==
  [ok |-> ok, err |-> err, url |-> res.url, api |-> res.api,
   hit |-> f.ok /\ f.hit, transport |-> ~f.hit, fetched |-> fetched,
   cache |-> f.files, saved |-> sv, extracted |-> ex,
   started |-> started, warned |-> warned, sha |-> "", resolved_tag |-> None]

\* the error of process_fetch_item when the digest is not the expected one
VerificationFailed == "SHA-256 verification failed for downloaded file"

\* process_fetch_item from the cached file on: save_as, the digest check, the
\* extraction
FinishNormal(item, res, f, fault, sv, sv1, ex, content, format) ==
  IF IsSome(item.save_as) /\ fault = "save"
  THEN ItemResult(FALSE, "Failed to copy file", res, f, Some(content), sv, ex, FALSE, FALSE)
  ELSE IF IsSome(item.lock) /\ IsSome(Unwrap(item.lock).sha)
          /\ ~verify_sha256(content, Unwrap(Unwrap(item.lock).sha))
  THEN ItemResult(FALSE, VerificationFailed, res, f, Some(content), sv1, ex, FALSE, FALSE)
  ELSE IF ~IsSome(item.unzip_to)
  THEN [ItemResult(TRUE, "", res, f, Some(content), sv1, ex, FALSE, FALSE)
          EXCEPT !.sha = compute_sha256(content)]
  ELSE IF format = "unknown"
  THEN [ItemResult(TRUE, "", res, f, Some(content), sv1, ex, TRUE, TRUE)
          EXCEPT !.sha = compute_sha256(content)]
  ELSE IF fault = "extract"
  THEN ItemResult(FALSE, "Failed to extract archive", res, f, Some(content), sv1, ex, TRUE, FALSE)
  ELSE [ItemResult(TRUE, "", res, f, Some(content), sv1,
                   ex \cup {[to |-> Unwrap(item.unzip_to), format |-> format, content |-> content]},
                   TRUE, FALSE)
          EXCEPT !.sha = compute_sha256(content)]

NotFetched(c) == [ok |-> FALSE, hit |-> TRUE, path |-> "", files |-> c]

\* process_fetch_item once the cache lookup and the download are over
FetchedNormal(item, res, f, fault, sv, ex) ==
  IF ~f.ok
  THEN ItemResult(FALSE, "Failed to download", res, f, None, sv, ex, FALSE, FALSE)
  ELSE FinishNormal(item, res, f, fault, sv,
                    IF IsSome(item.save_as)
                    THEN SaveFile(sv, Unwrap(item.save_as), f.files[f.path]) ELSE sv,
                    ex, f.files[f.path], ArchiveFormat(f.path))

\* process_fetch_item once the download URL is chosen
ResolvedNormal(item, res, fault, c, sv, ex) ==
  IF ~res.ok
  THEN [ItemResult(FALSE, res.err, res, NotFetched(c), None, sv, ex, FALSE, FALSE)
          EXCEPT !.transport = FALSE]
  ELSE FetchedNormal(item, res, FetchToCache(res.url, fault, c), fault, sv, ex)

process_fetch_item(item, fault, c, sv, ex) ==
  ResolvedNormal(item, ResolveNormal(item, fault # "api"), fault, c, sv, ex)

\* process_fetch_item_for_lock once the cache lookup and the download are over:
\* the digest of the cached file
FetchedForLock(res, f, sv, ex) ==
  IF ~f.ok
  THEN ItemResult(FALSE, "Failed to download", res, f, None, sv, ex, FALSE, FALSE)
  ELSE [ItemResult(TRUE, "", res, f, Some(f.files[f.path]), sv, ex, FALSE, FALSE)
          EXCEPT !.sha = compute_sha256(f.files[f.path]), !.resolved_tag = res.resolved_tag]

ResolvedForLock(res, fault, c, sv, ex) ==
  IF ~res.ok
  THEN [ItemResult(FALSE, res.err, res, NotFetched(c), None, sv, ex, FALSE, FALSE)
          EXCEPT !.transport = FALSE]
  ELSE FetchedForLock(res, FetchToCache(res.url, fault, c), sv, ex)

\* process_fetch_item_for_lock: the item is resolved again from url or github
\* (lock.download_url is not read), fetched through the cache and hashed
process_fetch_item_for_lock(item, fault, c, sv, ex) ==
  ResolvedForLock(ResolveForLock(item, fault # "api", fault # "api2",
                                 IF fault = "release" THEN EarlierTag ELSE LatestTag),
                  fault, c, sv, ex)

(***************************************************************************)
(* State.                                                                  *)
(***************************************************************************)
VARIABLES
  dlUrl,      \* the URL the workers fetch
  dlBody,     \* the bytes the origin serves for dlUrl (for a local URL: the bytes of the source file)
  srcExists,  \* whether the local source file exists
  dir,        \* the cache directory: path -> inode number, 0 when there is no entry
  inodes,     \* inode number -> content, a sequence of bytes (0: never written)
  finalPath,  \* the cache path of dlUrl (cached_file_path)
  tmpPath,    \* the temporary path download_http_file writes to (temp_path)
  wk          \* per worker: pc, the open file (an inode number), its write offset,
              \* and the content it found when it took a cache hit

VARIABLES
  cache,      \* the cache directory between the fetches: path -> content
  recipeFile, \* the recipe file on disk, as load reads it: [vars, items]
  saved,      \* the files written outside the cache: path -> content
  extracted,  \* the extractions done: [to, format, content]
  run,        \* the recipe run in progress, or the last one
  last,       \* the last item or command processed, and what came of it
  fetchedOk,  \* the URLs a fetch of which has succeeded
  ops         \* the number of runs and commands started

fsVars == << dlUrl, dlBody, srcExists, finalPath, tmpPath, dir, inodes, wk >>

rcVars == << cache, recipeFile, saved, extracted, run, last, fetchedOk, ops >>

VARIABLES
  pf          \* a call of VarContext::new and substitute, or of an extraction: its
              \* arguments and results

vars == << fsVars, rcVars, pf >>

(***************************************************************************)
(* The file system, as the download code uses it.                          *)
(***************************************************************************)
ByteValues == {1, 2}

Bodies == UNION { [1..n -> ByteValues] : n \in 0..MaxBodyLen }

\* Path::exists
Exists(p) == dir[p] # 0

FileContent(p) == inodes[dir[p]]

\* fs::remove_file, its result ignored
RemoveFile(p) == [dir EXCEPT ![p] = 0]

\* a write of one byte at offset off (a write past the end leaves a hole)
WriteAt(content, off, b) ==
  IF off < Len(content)
  THEN [content EXCEPT ![off + 1] = b]
  ELSE content \o [i \in 1..(off - Len(content)) |-> 0] \o << b >>

\* File::create: the entry's file truncated when there is one, a new file otherwise
CreatedInode(p) == IF Exists(p) THEN dir[p] ELSE Len(inodes) + 1

CreatedDir(p) == [dir EXCEPT ![p] = CreatedInode(p)]

CreatedInodes(p) ==
  IF Exists(p) THEN [inodes EXCEPT ![dir[p]] = << >>] ELSE Append(inodes, << >>)

Fail(w) == [wk EXCEPT ![w].pc = "failed"]

(***************************************************************************)
(* process_fetch_item: the cache lookup in front of download_file.         *)
(***************************************************************************)
CheckCache(w) ==
  /\ wk[w].pc = "start"
  /\ wk' = IF Exists(finalPath)
           THEN [wk EXCEPT ![w].pc = "hit", ![w].used = Some(FileContent(finalPath))]
           ELSE [wk EXCEPT ![w].pc = Transport(dlUrl)]
  /\ UNCHANGED << rcVars, pf, dlUrl, dlBody, srcExists, finalPath, tmpPath, dir, inodes >>

(***************************************************************************)
(* download_http_file, one action per system call.                         *)
(***************************************************************************)
\* ureq::get(url).call(), the status test and create_dir_all
HttpCall(w) ==
  /\ wk[w].pc = "http"
  /\ \E outcome \in {"ok", "call_error", "status_not_200", "mkdir_error"} :
       wk' = IF outcome = "ok" THEN [wk EXCEPT ![w].pc = "create"] ELSE Fail(w)
  /\ UNCHANGED << rcVars, pf, dlUrl, dlBody, srcExists, finalPath, tmpPath, dir, inodes >>

\* fs::File::create(&temp_path)
HttpCreateTemp(w) ==
  /\ wk[w].pc = "create"
  /\ \/ /\ wk' = Fail(w)
        /\ UNCHANGED << dir, inodes >>
     \/ /\ dir' = CreatedDir(tmpPath)
        /\ inodes' = CreatedInodes(tmpPath)
        /\ wk' = [wk EXCEPT ![w].pc = IF Len(dlBody) = 0 THEN "sync" ELSE "copy",
                            ![w].fd = CreatedInode(tmpPath),
                            ![w].off = 0]
  /\ UNCHANGED << rcVars, pf, dlUrl, dlBody, srcExists, finalPath, tmpPath >>

\* std::io::copy: one byte of the body written, or the stream fails and the
\* temporary file is removed
HttpCopy(w) ==
  /\ wk[w].pc = "copy"
  /\ \/ /\ inodes' = [inodes EXCEPT ![wk[w].fd] = WriteAt(@, wk[w].off, dlBody[wk[w].off + 1])]
        /\ wk' = [wk EXCEPT ![w].off = @ + 1,
                            ![w].pc = IF wk[w].off + 1 = Len(dlBody) THEN "sync" ELSE "copy"]
        /\ UNCHANGED dir
     \/ /\ dir' = RemoveFile(tmpPath)
        /\ wk' = Fail(w)
        /\ UNCHANGED inodes
  /\ UNCHANGED << rcVars, pf, dlUrl, dlBody, srcExists, finalPath, tmpPath >>

\* temp_file.sync_all()
HttpSync(w) ==
  /\ wk[w].pc = "sync"
  /\ \/ /\ wk' = [wk EXCEPT ![w].pc = "metadata"]
        /\ UNCHANGED dir
     \/ /\ dir' = RemoveFile(tmpPath)
        /\ wk' = Fail(w)
  /\ UNCHANGED << rcVars, pf, dlUrl, dlBody, srcExists, finalPath, tmpPath, inodes >>

\* temp_file.metadata()?: a failure returns without removing the temporary file
HttpMetadata(w) ==
  /\ wk[w].pc = "metadata"
  /\ \E ok \in BOOLEAN : wk' = IF ok THEN [wk EXCEPT ![w].pc = "rename"] ELSE Fail(w)
  /\ UNCHANGED << rcVars, pf, dlUrl, dlBody, srcExists, finalPath, tmpPath, dir, inodes >>

\* fs::rename(&temp_path, path): fails when the temporary entry is gone
HttpRename(w) ==
  /\ wk[w].pc = "rename"
  /\ \/ /\ Exists(tmpPath)
        /\ dir' = [[dir EXCEPT ![finalPath] = dir[tmpPath]] EXCEPT ![tmpPath] = IF tmpPath = finalPath THEN dir[tmpPath] ELSE 0]
        /\ wk' = [wk EXCEPT ![w].pc = "ok"]
     \/ /\ dir' = RemoveFile(tmpPath)
        /\ wk' = Fail(w)
  /\ UNCHANGED << rcVars, pf, dlUrl, dlBody, srcExists, finalPath, tmpPath, inodes >>

(***************************************************************************)
(* copy_local_file, one action per system call.                            *)
(***************************************************************************)
\* source_path.exists(), create_dir_all and fs::metadata
LocalCheck(w) ==
  /\ wk[w].pc = "local"
  /\ \E outcome \in {"ok", "mkdir_error", "metadata_error"} :
       wk' = IF srcExists /\ outcome = "ok" THEN [wk EXCEPT ![w].pc = "lopen"] ELSE Fail(w)
  /\ UNCHANGED << rcVars, pf, dlUrl, dlBody, srcExists, finalPath, tmpPath, dir, inodes >>

\* fs::copy opens the destination (created or truncated) ...
LocalOpen(w) ==
  /\ wk[w].pc = "lopen"
  /\ \/ /\ wk' = Fail(w)
        /\ UNCHANGED << dir, inodes >>
     \/ /\ dir' = CreatedDir(finalPath)
        /\ inodes' = CreatedInodes(finalPath)
        /\ wk' = [wk EXCEPT ![w].pc = IF Len(dlBody) = 0 THEN "ok" ELSE "lcopy",
                            ![w].fd = CreatedInode(finalPath),
                            ![w].off = 0]
  /\ UNCHANGED << rcVars, pf, dlUrl, dlBody, srcExists, finalPath, tmpPath >>

\* ... and writes the source into it; a failure leaves what was written
LocalCopy(w) ==
  /\ wk[w].pc = "lcopy"
  /\ \/ /\ inodes' = [inodes EXCEPT ![wk[w].fd] = WriteAt(@, wk[w].off, dlBody[wk[w].off + 1])]
        /\ wk' = [wk EXCEPT ![w].off = @ + 1,
                            ![w].pc = IF wk[w].off + 1 = Len(dlBody) THEN "ok" ELSE "lcopy"]
     \/ /\ wk' = Fail(w)
        /\ UNCHANGED inodes
  /\ UNCHANGED << rcVars, pf, dlUrl, dlBody, srcExists, finalPath, tmpPath, dir >>

(***************************************************************************)
(* recipe.rs: a run over the recipe file.                                  *)
(***************************************************************************)
EmptyRecipe == [vars |-> << >>, items |-> << >>]

NoRun ==
  [mode |-> "none", phase |-> "idle", tag |-> None, recipe |-> EmptyRecipe,
   selected |-> {}, todo |-> << >>, attempted |-> {}, failed |-> {}, errors |-> << >>,
   updated_recipe |-> EmptyRecipe, any_updated |-> FALSE, ok |-> TRUE,
   startFile |-> EmptyRecipe, wrote |-> FALSE, relock |-> FALSE, mismatched |-> {},
   opts |-> [upgrade |-> FALSE, dry |-> FALSE, lock |-> FALSE]]

NoLast ==
  [kind |-> "none", section |-> "", item |-> EmptyItem, ok |-> TRUE, err |-> "", url |-> "",
   api |-> 0, hit |-> FALSE, transport |-> FALSE, fetched |-> None, started |-> FALSE,
   warned |-> FALSE, okBefore |-> FALSE, failedBefore |-> FALSE]

\* what is kept of an item's processing; okBefore and failedBefore say whether its
\* URL had been fetched, and whether this very item had failed the verification of
\* its digest in normal mode, before
LastOf(kind, section, item, r) ==
  [kind |-> kind, section |-> section, item |-> item, ok |-> r.ok, err |-> r.err, url |-> r.url,
   api |-> r.api, hit |-> r.hit, transport |-> r.transport, fetched |-> r.fetched,
   started |-> r.started, warned |-> r.warned, okBefore |-> r.url \in fetchedOk,
   failedBefore |-> [section |-> section, item |-> item] \in run.mismatched]

\* the orders in which a HashMap may yield the selected sections
Orders(S) ==
  {o \in [1..Cardinality(S) -> S] : \A i, j \in 1..Cardinality(S) : o[i] = o[j] => i = j}

\* a filter that selects the sections whose name starts with the tag
Selected_Prefix(recipe, tag) ==
  {k \in DOMAIN recipe.items : IsSome(tag) => StartsWith(k, Unwrap(tag))}

\* the sections a tag filter selects: all, or those whose name contains it
Selected(recipe, tag) ==
  {k \in DOMAIN recipe.items : IsSome(tag) => Contains(k, Unwrap(tag))}

\* a run begins: the file is read and parsed, the items to go through are
\* collected; nothing to do is a success
BeginRun(mode, opts, tag, sections) ==
  /\ run.phase # "running"
  /\ ops < MaxOps
  /\ ops' = ops + 1
  /\ \E order \in Orders(sections) :
       run' = [NoRun EXCEPT !.mode = mode,
                            !.phase = IF order = << >> THEN "done" ELSE "running",
                            !.tag = tag,
                            !.recipe = recipeFile,
                            !.selected = sections,
                            !.todo = order,
                            !.updated_recipe = recipeFile,
                            !.startFile = recipeFile,
                            !.relock = /\ mode = "lock" /\ run.mode = "lock"
                                       /\ run.phase = "done" /\ run.ok /\ run.tag = tag,
                            !.mismatched = run.mismatched,
                            !.opts = opts]
  /\ last' = NoLast
  /\ UNCHANGED << fsVars, pf, cache, recipeFile, saved, extracted, fetchedOk >>

\* process_recipe without --upgrade and --dry, up to the loop over the items
StartRun(mode, tag) ==
  BeginRun(mode, [upgrade |-> FALSE, dry |-> FALSE, lock |-> mode = "lock"], tag,
           Selected(recipeFile, tag))

StartNormal == \E tag \in {None, Some("ap")} : StartRun("normal", tag)

StartLock == \E tag \in {None, Some("ap")} : StartRun("lock", tag)

\* process_recipe_items, one turn of the loop: a substitution error is returned
\* at once, an error of process_fetch_item is collected. The loop calls
\* process_fetch_item on its own thread and without catch_unwind: a panic raised
\* in the call (panics: here at its first println!, before it has written
\* anything) unwinds through the loop and ends the run, the remaining items are
\* left and no error is collected
NormalItem ==
  /\ run.mode = "normal" /\ run.phase = "running" /\ run.todo # << >>
  /\ \E section_name \in {Head(run.todo)} :
     \E sub \in {substitute_fetch_item(run.recipe.items[section_name], VarContext(run.recipe.vars))} :
     \E panics \in BOOLEAN :
         IF ~sub.ok
         THEN /\ run' = [run EXCEPT !.phase = "done", !.ok = FALSE,
                                    !.failed = @ \cup {section_name}]
              /\ last' = [NoLast EXCEPT !.kind = "substitute", !.section = section_name,
                                        !.ok = FALSE, !.err = "Failed to substitute variables"]
              /\ UNCHANGED << cache, saved, extracted, fetchedOk >>
         ELSE IF panics
         THEN /\ run' = [run EXCEPT !.phase = "done", !.ok = FALSE,
                                    !.attempted = @ \cup {section_name},
                                    !.failed = @ \cup {section_name}]
              /\ last' = [NoLast EXCEPT !.kind = "panic", !.section = section_name,
                                        !.item = sub.val, !.ok = FALSE, !.err = "panicked"]
              /\ UNCHANGED << cache, saved, extracted, fetchedOk >>
         ELSE \E fault \in Faults :
                \E r \in {process_fetch_item(sub.val, fault, cache, saved, extracted)} :
                    /\ cache' = r.cache
                    /\ saved' = r.saved
                    /\ extracted' = r.extracted
                    /\ fetchedOk' = IF IsSome(r.fetched) THEN fetchedOk \cup {r.url} ELSE fetchedOk
                    /\ last' = LastOf("normal", section_name, sub.val, r)
                    /\ run' = [run EXCEPT
                                 !.todo = Tail(@),
                                 !.attempted = @ \cup {section_name},
                                 !.failed = IF r.ok THEN @ ELSE @ \cup {section_name},
                                 !.mismatched = IF r.err = VerificationFailed
                                                THEN @ \cup {[section |-> section_name, item |-> sub.val]}
                                                ELSE @,
                                 !.errors = IF r.ok THEN @
                                            ELSE Append(@, [section |-> section_name, err |-> r.err])]
  /\ UNCHANGED << fsVars, pf, recipeFile, ops >>

\* process_recipe_items after the loop: the collected errors in one error
NormalFinish ==
  /\ run.mode = "normal" /\ run.phase = "running" /\ run.todo = << >>
  /\ run' = [run EXCEPT !.phase = "done", !.ok = (run.errors = << >>)]
  /\ UNCHANGED << fsVars, pf, cache, recipeFile, saved, extracted, last, fetchedOk, ops >>

(***************************************************************************)
(* recipe.rs: lock mode.                                                   *)
(***************************************************************************)
\* serialize_recipe_with_inline_locks, given as the recipe a load of the written
\* text yields: install_exes and no_shim are not written, executable only when it
\* is true, the lock table only when it has a part
serialize_recipe_with_inline_locks(recipe) ==
  [vars |-> recipe.vars,
   items |-> [k \in DOMAIN recipe.items |->
                LET fetch_item == recipe.items[k]
                IN  [fetch_item EXCEPT
                       !.install_exes = None,
                       !.no_shim = None,
                       !.executable = IF fetch_item.executable = Some(TRUE) THEN Some(TRUE) ELSE None,
                       !.lock = IF IsSome(fetch_item.lock)
                                   /\ (IsSome(Unwrap(fetch_item.lock).sha)
                                       \/ IsSome(Unwrap(fetch_item.lock).download_url))
                                THEN fetch_item.lock ELSE None]]]

\* process_recipe_for_lock, Ok(lock_result): the digest when it differs from the
\* old one, the resolved tag when the item has a github table without a tag, the
\* download URL when it differs from the stored one
UpdateLock(item, lock_result) ==
  LET lock_info == IF IsSome(item.lock) THEN Unwrap(item.lock) ELSE LockInfo(None, None)
      old_sha == IF IsSome(lock_info.sha) THEN Unwrap(lock_info.sha) ELSE "none"
      new_sha == old_sha # lock_result.sha
      pin == IsSome(lock_result.resolved_tag) /\ IsSome(item.github)
             /\ ~IsSome(Unwrap(item.github).tag)
      new_url == lock_info.download_url # Some(lock_result.url)
  IN  [item |-> [item EXCEPT
                   !.lock = Some(LockInfo(IF new_sha THEN Some(lock_result.sha) ELSE lock_info.sha,
                                          IF new_url THEN Some(lock_result.url)
                                          ELSE lock_info.download_url)),
                   !.github = IF pin
                              THEN Some([Unwrap(item.github) EXCEPT !.tag = lock_result.resolved_tag])
                              ELSE @],
       updated |-> new_sha \/ pin \/ new_url]

\* a lock run that writes what it has, as often as it has something
AbortLock_Flush(file, updated_recipe, any_updated) ==
  IF any_updated THEN serialize_recipe_with_inline_locks(updated_recipe) ELSE file

\* process_recipe_for_lock, an error of an item: the error is returned, the file
\* is not written
AbortLock(file, updated_recipe, any_updated) == file

\* process_recipe_for_lock, one turn of the loop
LockItem ==
  /\ run.mode = "lock" /\ run.phase = "running" /\ run.todo # << >>
  /\ \E section_name \in {Head(run.todo)} :
     \E sub \in {substitute_fetch_item(run.recipe.items[section_name], VarContext(run.recipe.vars))} :
         IF ~sub.ok
         THEN /\ run' = [run EXCEPT !.phase = "done", !.ok = FALSE,
                                    !.failed = @ \cup {section_name}]
              /\ last' = [NoLast EXCEPT !.kind = "substitute", !.section = section_name,
                                        !.ok = FALSE, !.err = "Failed to substitute variables"]
              /\ recipeFile' = AbortLock(recipeFile, run.updated_recipe, run.any_updated)
              /\ UNCHANGED << cache, fetchedOk >>
         ELSE \E fault \in Faults :
                \E r \in {process_fetch_item_for_lock(sub.val, fault, cache, saved, extracted)} :
                \E u \in {UpdateLock(run.updated_recipe.items[section_name], r)} :
                    /\ cache' = r.cache
                    /\ fetchedOk' = IF IsSome(r.fetched) THEN fetchedOk \cup {r.url} ELSE fetchedOk
                    /\ last' = LastOf("lock", section_name, sub.val, r)
                    /\ IF r.ok
                       THEN /\ run' = [run EXCEPT
                                         !.todo = Tail(@),
                                         !.attempted = @ \cup {section_name},
                                         !.updated_recipe.items[section_name] = u.item,
                                         !.any_updated = @ \/ u.updated]
                            /\ UNCHANGED recipeFile
                       ELSE /\ run' = [run EXCEPT
                                         !.phase = "done", !.ok = FALSE,
                                         !.attempted = @ \cup {section_name},
                                         !.failed = @ \cup {section_name},
                                         !.errors = Append(@, [section |-> section_name, err |-> r.err])]
                            /\ recipeFile' = AbortLock(recipeFile, run.updated_recipe, run.any_updated)
  /\ UNCHANGED << fsVars, pf, saved, extracted, ops >>

\* process_recipe_for_lock after the loop: the file is written when an item changed
LockFinish ==
  /\ run.mode = "lock" /\ run.phase = "running" /\ run.todo = << >>
  /\ run' = [run EXCEPT !.phase = "done", !.wrote = run.any_updated]
  /\ recipeFile' = IF run.any_updated
                   THEN serialize_recipe_with_inline_locks(run.updated_recipe)
                   ELSE recipeFile
  /\ UNCHANGED << fsVars, pf, cache, saved, extracted, last, fetchedOk, ops >>

(***************************************************************************)
(* recipe.rs: process_recipe with all its options, dry mode and the        *)
(* upgrade of the recipe.                                                  *)
(***************************************************************************)
\* process_recipe, the order of its tests: upgrade, then dry, then lock
process_recipe_mode(upgrade, dry, lock) ==
  IF upgrade THEN "upgrade" ELSE IF dry THEN "dry" ELSE IF lock THEN "lock" ELSE "normal"

\* process_recipe up to the loop of the mode it chose; upgrade_recipe goes through
\* every item of the file, the other modes through the items the tag selects
ProcessRecipe ==
  \E upgrade \in BOOLEAN, dry \in BOOLEAN, lock \in BOOLEAN, tag \in {None, Some("pp")} :
    BeginRun(process_recipe_mode(upgrade, dry, lock),
             [upgrade |-> upgrade, dry |-> dry, lock |-> lock], tag,
             IF upgrade THEN DOMAIN recipeFile.items ELSE Selected(recipeFile, tag))

\* dry_run_recipe, one turn of the loop: the item is substituted and printed
DryItem ==
  /\ run.mode = "dry" /\ run.phase = "running" /\ run.todo # << >>
  /\ \E section_name \in {Head(run.todo)} :
     \E sub \in {substitute_fetch_item(run.recipe.items[section_name], VarContext(run.recipe.vars))} :
         IF ~sub.ok
         THEN /\ run' = [run EXCEPT !.phase = "done", !.ok = FALSE,
                                    !.failed = @ \cup {section_name}]
              /\ last' = [NoLast EXCEPT !.kind = "substitute", !.section = section_name,
                                        !.ok = FALSE, !.err = "Failed to substitute variables"]
         ELSE /\ run' = [run EXCEPT !.todo = Tail(@), !.attempted = @ \cup {section_name}]
              /\ last' = [NoLast EXCEPT !.kind = "dry", !.section = section_name,
                                        !.item = sub.val]
  /\ UNCHANGED << fsVars, pf, cache, recipeFile, saved, extracted, fetchedOk, ops >>

\* dry_run_recipe after the loop
DryFinish ==
  /\ run.mode = "dry" /\ run.phase = "running" /\ run.todo = << >>
  /\ run' = [run EXCEPT !.phase = "done"]
  /\ UNCHANGED << fsVars, pf, cache, recipeFile, saved, extracted, last, fetchedOk, ops >>

guess_binary_name_from_repo(repo) == SplitLast(repo, "/")

\* the tag of upgrade_recipe: the latest one when the request for it is answered
UpgradedTag(github, latest) ==
  IF latest.ok /\ github.tag # Some(latest.val)
  THEN [github |-> [github EXCEPT !.tag = Some(latest.val)], updated |-> TRUE]
  ELSE [github |-> github, updated |-> FALSE]

\* upgrade_recipe, one item: an asset name is guessed when there is none, the tag
\* becomes the latest tag
UpgradedGitHub(item, github, t) ==
  [item |-> [item EXCEPT !.github = Some(t.github)],
   updated |-> ~IsSome(github.asset) \/ t.updated,
   api |-> 1]

UpgradeOf(item, api) ==
  IF ~IsSome(item.github) THEN [item |-> item, updated |-> FALSE, api |-> 0]
  ELSE UpgradedGitHub(item, Unwrap(item.github),
                      UpgradedTag(IF IsSome(Unwrap(item.github).asset) THEN Unwrap(item.github)
                                  ELSE [Unwrap(item.github) EXCEPT
                                          !.asset = Some(guess_binary_name_from_repo(Unwrap(item.github).repo))],
                                  get_latest_github_tag(Unwrap(item.github).repo, api)))

\* upgrade_recipe, one turn of the loop
UpgradeItem ==
  /\ run.mode = "upgrade" /\ run.phase = "running" /\ run.todo # << >>
  /\ \E section_name \in {Head(run.todo)}, api \in BOOLEAN :
     \E u \in {UpgradeOf(run.updated_recipe.items[section_name], api)} :
         /\ run' = [run EXCEPT !.todo = Tail(@),
                               !.attempted = @ \cup {section_name},
                               !.updated_recipe.items[section_name] = u.item,
                               !.any_updated = @ \/ u.updated]
         /\ last' = [NoLast EXCEPT !.kind = "upgrade", !.section = section_name,
                                   !.item = u.item, !.api = u.api]
  /\ UNCHANGED << fsVars, pf, cache, recipeFile, saved, extracted, fetchedOk, ops >>

\* upgrade_recipe after the loop: the file is written when an item changed
UpgradeFinish ==
  /\ run.mode = "upgrade" /\ run.phase = "running" /\ run.todo = << >>
  /\ run' = [run EXCEPT !.phase = "done", !.wrote = run.any_updated]
  /\ recipeFile' = IF run.any_updated
                   THEN serialize_recipe_with_inline_locks(run.updated_recipe)
                   ELSE recipeFile
  /\ UNCHANGED << fsVars, pf, cache, saved, extracted, last, fetchedOk, ops >>

(***************************************************************************)
(* The commands that fetch without a recipe: runner.rs fetch_direct_url    *)
(* and download/github.rs fetch_github_release.                            *)
(***************************************************************************)
\* fetch_direct_url after the download: the extraction of a zip or tar.gz file,
\* a warning for any other format
DirectResult(url, unzip_to, fault, ex, dl, format, extract) ==
  [ok |-> dl.ok /\ ~(extract /\ fault = "extract"),
   err |-> IF ~dl.ok THEN "Failed to download"
           ELSE IF extract /\ fault = "extract" THEN "Failed to extract archive" ELSE "",
   url |-> url, api |-> 0, hit |-> FALSE, transport |-> TRUE,
   fetched |-> IF dl.ok THEN Some(Origin[url]) ELSE None,
   saved |-> dl.files,
   extracted |-> IF extract /\ fault # "extract"
                 THEN ex \cup {[to |-> Unwrap(unzip_to), format |-> format, content |-> Origin[url]]}
                 ELSE ex,
   started |-> extract,
   warned |-> dl.ok /\ IsSome(unzip_to) /\ ~extract]

DirectDownloaded(url, unzip_to, fault, ex, dl, format) ==
  DirectResult(url, unzip_to, fault, ex, dl, format,
               dl.ok /\ IsSome(unzip_to) /\ format \in {"zip", "tar.gz"})

DirectTo(url, local_path, unzip_to, fault, sv, ex) ==
  DirectDownloaded(url, unzip_to, fault, ex, download_file(url, local_path, fault, sv),
                   ArchiveFormat(local_path))

\* fetch_direct_url: download_file straight to save_as or to the file name of
\* the URL; the cache is neither read nor written; then the extraction
fetch_direct_url(url, save_as, unzip_to, fault, sv, ex) ==
  DirectTo(url, IF IsSome(save_as) THEN Unwrap(save_as) ELSE get_filename_from_url(url),
           unzip_to, fault, sv, ex)

FetchDirect ==
  /\ run.phase # "running"
  /\ ops < MaxOps
  /\ ops' = ops + 1
  /\ \E url \in {"h://x/a.zip"}, unzip_to \in {None, Some("out")}, fault \in Faults :
       \E r \in {fetch_direct_url(url, None, unzip_to, fault, saved, extracted)} :
           /\ saved' = r.saved
           /\ extracted' = r.extracted
           /\ fetchedOk' = IF IsSome(r.fetched) THEN fetchedOk \cup {url} ELSE fetchedOk
           /\ last' = LastOf("direct", "", [EmptyItem EXCEPT !.url = Some(url), !.unzip_to = unzip_to], r)
  /\ run' = NoRun
  /\ UNCHANGED << fsVars, pf, cache, recipeFile >>

\* fetch_github_release once the asset is in the cache: the copy to the current
\* directory
GithubFetched(res, f, fault, sv, ex) ==
  IF ~f.ok
  THEN ItemResult(FALSE, "Failed to download", res, f, None, sv, ex, FALSE, FALSE)
  ELSE IF fault = "save"
  THEN ItemResult(FALSE, "Failed to copy file", res, f, Some(f.files[f.path]), sv, ex, FALSE, FALSE)
  ELSE ItemResult(TRUE, "", res, f, Some(f.files[f.path]),
                  SaveFile(sv, PathJoin(".", get_filename_from_url(res.url)), f.files[f.path]),
                  ex, FALSE, FALSE)

GithubResolved(res, fault, c, sv, ex) ==
  IF ~res.ok
  THEN [ItemResult(FALSE, res.err, res, NotFetched(c), None, sv, ex, FALSE, FALSE)
          EXCEPT !.transport = FALSE]
  ELSE GithubFetched(res, FetchToCache(res.url, fault, c), fault, sv, ex)

\* fetch_github_release with the binary named: the release is asked for, the
\* first asset whose name contains the binary name is fetched through the cache
\* and copied to the current directory
fetch_github_release(repo, binary_name, tag, fault, c, sv, ex) ==
  GithubResolved(Resolved(IF fault = "api" THEN Err("Failed to fetch release info")
                          ELSE AssetUrlIn(ReleaseInfo(repo, tag), to_lowercase(binary_name))),
                 fault, c, sv, ex)

FetchGithub ==
  /\ run.phase # "running"
  /\ ops < MaxOps
  /\ ops' = ops + 1
  /\ \E tag \in {None, Some("v1")}, fault \in Faults :
       \E r \in {fetch_github_release(Repo, "linux", tag, fault, cache, saved, extracted)} :
           /\ cache' = r.cache
           /\ saved' = r.saved
           /\ extracted' = r.extracted
           /\ fetchedOk' = IF IsSome(r.fetched) THEN fetchedOk \cup {r.url} ELSE fetchedOk
           /\ last' = LastOf("github", "", [EmptyItem EXCEPT !.github = Some(GitHubFetch(Repo, Some("linux"), tag))], r)
  /\ run' = NoRun
  /\ UNCHANGED << fsVars, pf, recipeFile >>

(***************************************************************************)
(* The recipes and the caches the runs start from.                         *)
(***************************************************************************)
\* where an item says its artifact is
ItemSources ==
  { [url |-> Some("${base}/a.zip"), github |-> None],
    [url |-> Some("${nope}/a.zip"), github |-> None],
    [url |-> None, github |-> Some(GitHubFetch(Repo, None, None))],
    [url |-> None, github |-> Some(GitHubFetch(Repo, Some("LINUX"), None))],
    [url |-> None, github |-> Some(GitHubFetch(Repo, Some("linux"), Some("v1")))],
    [url |-> Some("h://x/a.zip"), github |-> Some(GitHubFetch(Repo, None, None))],
    [url |-> None, github |-> None] }

\* the lock table of an item: none, a digest (of the bytes << 1 >> in upper case,
\* of the bytes << 2 >>), a stored download URL; lock runs write the others
ItemLocks ==
  { None,
    Some(LockInfo(Some("E31"), None)),
    Some(LockInfo(Some("e32"), None)),
    Some(LockInfo(None, Some("h://m/a.zip"))) }

\* the other fields of an item: none, or all of them
ItemOutputs ==
  { [unzip_to |-> None, save_as |-> None, files |-> None, profile |-> None,
     install_exes |-> None, no_shim |-> None, executable |-> None],
    [unzip_to |-> Some("~/out"), save_as |-> Some("dl/s.zip"), files |-> Some("*.exe"),
     profile |-> Some("p"), install_exes |-> Some(<< "t" >>), no_shim |-> Some(TRUE),
     executable |-> Some(FALSE)] }

MakeItem(src, lock, out) ==
  [url |-> src.url, github |-> src.github, unzip_to |-> out.unzip_to, save_as |-> out.save_as,
   files |-> out.files, profile |-> out.profile, install_exes |-> out.install_exes,
   no_shim |-> out.no_shim, lock |-> lock, executable |-> out.executable]

AppItems == {MakeItem(src, lock, out) : src \in ItemSources, lock \in ItemLocks, out \in ItemOutputs}

LibItem == [EmptyItem EXCEPT !.url = Some("h://x/a.zip")]

\* a cache that is empty, or holds under the name of h://x/a.zip a file of
\* another content than the origin serves now
InitialCaches == { << >>, SaveFile(<< >>, CachePaths["h://x/a.zip"], << 2 >>) }

(***************************************************************************)
(* vars.rs: calls of VarContext::new and of substitute.                    *)
(***************************************************************************)
NotRun == [ok |-> FALSE, val |-> "", err |-> "not run"]

\* no call yet
NoCall ==
  [phase |-> "none", recipe_vars |-> << >>, cli |-> << >>, ctx |-> << >>, toks |-> << >>,
   input |-> "", pre |-> NotRun, out |-> NotRun, again |-> NotRun]

RECURSIVE Flatten(_)
Flatten(toks) == IF toks = << >> THEN "" ELSE Head(toks) \o Flatten(Tail(toks))

SeqsUpTo(S, n) == UNION { [1..k -> S] : k \in 0..n }

\* the fragments of the inputs: references to a defined and to an undefined name,
\* dollars, braces without a dollar, a tilde, plain text
Tokens == {"${a}", "${u}", "$$", "$", "{a}", "{u}", "~", "/", "x"}

\* the [vars] tables of the recipes: a plain value, a tilde, text with markers,
\* a home directory that itself starts with a tilde
SubstVars ==
  { [a |-> "v"], [a |-> "~"], [a |-> "${b}$$", b |-> "w"], [a |-> "v", home |-> "~/h"] }

\* [vars] tables that define some of the names os, home and a
LayerNames == {"os", "home", "a"}

LayerVars == { [n \in S |-> "r-" \o n] : S \in SUBSET LayerNames }

\* --set arguments: key, value and the text on the command line
CliPairs ==
  { [key |-> "os", value |-> "c1", text |-> "os=c1"],
    [key |-> "a", value |-> "c2", text |-> "a=c2"],
    [key |-> "a", value |-> "c=3", text |-> "a=c=3"],
    [key |-> "", value |-> "", text |-> "bad"] }

InitCall(tables, overrides, inputs) ==
  \E recipe_vars \in tables, cli \in overrides, toks \in inputs :
    pf = [NoCall EXCEPT !.phase = "args", !.recipe_vars = recipe_vars, !.cli = cli,
                        !.toks = toks, !.input = Flatten(toks)]

\* VarContext::new(recipe_vars, cli_overrides, recipe_path)
NewContext ==
  /\ pf.phase = "args"
  /\ \E c \in {VarContextNew(pf.recipe_vars, [i \in DOMAIN pf.cli |-> pf.cli[i].text])} :
       pf' = IF c.ok THEN [pf EXCEPT !.phase = "ctx", !.ctx = c.val]
             ELSE [pf EXCEPT !.phase = "failed"]
  /\ UNCHANGED << fsVars, rcVars >>

\* ctx.substitute(input); pre is the text before the tilde expansion
Substitute ==
  /\ pf.phase = "ctx"
  /\ pf' = [pf EXCEPT !.phase = "once",
                      !.pre = SubstituteChars(pf.ctx, pf.input),
                      !.out = substitute(pf.ctx, pf.input)]
  /\ UNCHANGED << fsVars, rcVars >>

\* ctx.substitute of what the first call returned
SubstituteAgain ==
  /\ pf.phase = "once" /\ pf.out.ok
  /\ pf' = [pf EXCEPT !.phase = "twice", !.again = substitute(pf.ctx, pf.out.val)]
  /\ UNCHANGED << fsVars, rcVars >>

NextSubst ==
  \/ NewContext
  \/ Substitute
  \/ SubstituteAgain

(***************************************************************************)
(* archive/zip.rs, archive/tar.rs and the places that choose between them: *)
(* recipe.rs extract_archive, runner.rs fetch_direct_url, download/        *)
(* github.rs extract_archive_with_options.                                 *)
(***************************************************************************)
\* glob_match of the glob-match crate, for patterns of literal characters and
\* "*": a "*" stands for any run of characters without a separator
RECURSIVE glob_match(_, _)
glob_match(glob, path) ==
  IF glob = "" THEN path = ""
  ELSE IF Char(glob, 1) = "*"
  THEN \/ glob_match(Tail(glob), path)
       \/ path # "" /\ Char(path, 1) # "/" /\ glob_match(glob, Tail(path))
  ELSE path # "" /\ Char(path, 1) = Char(glob, 1) /\ glob_match(Tail(glob), Tail(path))

\* what stands at a path of the destination that is a directory
Directory == "<dir>"

\* the destination before an extraction: fs::create_dir_all(extract_to)
EmptyDest(extract_to) ==
  [dest |-> [q \in {extract_to} |-> Directory], extracted_files |-> << >>, mode755 |-> {}]

\* a path as Path compares it: without a trailing separator
Trimmed(path) == IF EndsWith(path, "/") THEN SubSeq(path, 1, Len(path) - 1) ELSE path

\* fs::create_dir_all(path): the directory and every missing one above it
CreateDirAll(dest, path) ==
  [q \in DOMAIN dest \cup {path} \cup {SubSeq(path, 1, i - 1) : i \in Occurrences(path, "/")} |->
     IF q \in DOMAIN dest THEN dest[q] ELSE Directory]

\* Path::parent
PathParent(path) == SubSeq(path, 1, LastIndexOf(path, "/") - 1)

\* File::create(outpath) and the copy of the entry, the parent made first
Written(dest, parents, outpath, content) ==
  [q \in DOMAIN parents \cup {outpath} |-> IF q = outpath THEN content ELSE parents[q]]

\* extracted_files.push(outpath) after the file is written
WriteFile(acc, outpath, content) ==
  [acc EXCEPT !.dest = Written(acc.dest, CreateDirAll(acc.dest, PathParent(outpath)), outpath, content),
              !.extracted_files = Append(acc.extracted_files, outpath)]

\* the test of an entry against the filter: the whole path or the file name
FilterSkips(file_pattern, name) ==
  /\ IsSome(file_pattern)
  /\ ~glob_match(Unwrap(file_pattern), name)
  /\ ~glob_match(Unwrap(file_pattern), PathFileName(name))

\* extract_zip, one turn of the loop; the content of an entry is named after
\* its path in the archive
ZipEntry(acc, name, extract_to, file_pattern) ==
  IF FilterSkips(file_pattern, name) THEN acc
  ELSE IF EndsWith(name, "/")
  THEN IF IsSome(file_pattern) THEN acc
       ELSE [acc EXCEPT !.dest = CreateDirAll(acc.dest, PathJoin(extract_to, Trimmed(name)))]
  ELSE WriteFile(acc, PathJoin(extract_to, IF IsSome(file_pattern) THEN PathFileName(name) ELSE name),
                 name)

RECURSIVE ZipEntries(_, _, _, _)
ZipEntries(acc, entries, extract_to, file_pattern) ==
  IF entries = << >> THEN acc
  ELSE ZipEntries(ZipEntry(acc, Head(entries), extract_to, file_pattern), Tail(entries),
                  extract_to, file_pattern)

extract_zip(entries, extract_to, file_pattern) ==
  ZipEntries(EmptyDest(extract_to), entries, extract_to, file_pattern)

\* entry.unpack(outpath): a directory entry makes the directory, any other entry
\* the file; extracted_files.push(outpath) in both cases
Unpacked(acc, name, outpath) ==
  IF EndsWith(name, "/")
  THEN [acc EXCEPT !.dest = CreateDirAll(acc.dest, outpath),
                   !.extracted_files = Append(acc.extracted_files, outpath)]
  ELSE WriteFile(acc, outpath, name)

\* extract_tar_from_reader, one turn of the loop
TarEntry(acc, name, extract_to, file_pattern) ==
  IF FilterSkips(file_pattern, name) THEN acc
  ELSE Unpacked(acc, name,
                PathJoin(extract_to, IF IsSome(file_pattern) THEN PathFileName(name) ELSE Trimmed(name)))

RECURSIVE TarEntries(_, _, _, _)
TarEntries(acc, entries, extract_to, file_pattern) ==
  IF entries = << >> THEN acc
  ELSE TarEntries(TarEntry(acc, Head(entries), extract_to, file_pattern), Tail(entries),
                  extract_to, file_pattern)

extract_tar_from_reader(entries, extract_to, file_pattern) ==
  TarEntries(EmptyDest(extract_to), entries, extract_to, file_pattern)

\* what a dispatch did: how is the extraction it chose, "copy" or "skip"
Extraction(how, acc) ==
  [how |-> how, dest |-> acc.dest, extracted_files |-> acc.extracted_files, mode755 |-> acc.mode755]

\* recipe.rs extract_archive: any other name is a warning and nothing is extracted;
\* extract_to is not created
extract_archive(file_path, entries, extract_to, file_pattern) ==
  IF ArchiveFormat(file_path) = "zip"
  THEN Extraction("zip", extract_zip(entries, extract_to, file_pattern))
  ELSE IF ArchiveFormat(file_path) = "tar.gz"
  THEN Extraction("tar.gz", extract_tar_from_reader(entries, extract_to, file_pattern))
  ELSE IF ArchiveFormat(file_path) = "tar.zst"
  THEN Extraction("tar.zst", extract_tar_from_reader(entries, extract_to, file_pattern))
  ELSE Extraction("skip", [dest |-> << >>, extracted_files |-> << >>, mode755 |-> {}])

\* runner.rs fetch_direct_url, the extraction: zip and tar.gz, a warning for any
\* other name
fetch_direct_url_extract(local_path, entries, extract_to, files) ==
  IF PathExtension(local_path) = Some("zip")
  THEN Extraction("zip", extract_zip(entries, extract_to, files))
  ELSE IF EndsWith(PathFileName(local_path), ".tar.gz") \/ PathExtension(local_path) = Some("tgz")
  THEN Extraction("tar.gz", extract_tar_from_reader(entries, extract_to, files))
  ELSE Extraction("skip", [dest |-> << >>, extracted_files |-> << >>, mode755 |-> {}])

\* download/github.rs extract_archive_with_options: the name of the asset decides;
\* a file that is no archive is copied to extract_to, which fs::copy does not
\* create, and made executable
extract_archive_with_options(original_filename, entries, extract_to, files_pattern, exists) ==
  IF EndsWith(original_filename, ".zip")
  THEN Extraction("zip", extract_zip(entries, extract_to, files_pattern))
  ELSE IF EndsWith(original_filename, ".tar.gz") \/ EndsWith(original_filename, ".tgz")
  THEN Extraction("tar.gz", extract_tar_from_reader(entries, extract_to, files_pattern))
  ELSE IF EndsWith(original_filename, ".tar.zst")
  THEN Extraction("tar.zst", extract_tar_from_reader(entries, extract_to, files_pattern))
  ELSE IF ~exists
  THEN Extraction("error", [dest |-> << >>, extracted_files |-> << >>, mode755 |-> {}])
  ELSE Extraction("copy", [EmptyDest(extract_to) EXCEPT
                             !.dest = Written(@, @, PathJoin(extract_to, original_filename),
                                              original_filename),
                             !.mode755 = {PathJoin(extract_to, original_filename)}])

\* the names of the downloaded files, the entries of the archives, the filters
FileNames == {"a.zip", "a.tar.gz", "a.tgz", "a.tar.zst", "tool", "tool.exe"}

EntryNames == {"bin/", "bin/tool", "doc/tool", "tool", "README"}

Filters == {None, Some("tool"), Some("*"), Some("b*"), Some("bin/*")}

\* no extraction yet
NoExtraction ==
  [phase |-> "none", name |-> "", entries |-> << >>, files |-> None, extract_to |-> "out",
   exists |-> FALSE, via |-> "", result |-> Extraction("", [dest |-> << >>, extracted_files |-> << >>, mode755 |-> {}])]

\* a file name, the entries of the file when it is an archive, a filter, and
\* whether the directory to extract to is there already
InitExtraction ==
  \E name \in FileNames, entries \in SeqsUpTo(EntryNames, MaxEntries), files \in Filters,
     exists \in BOOLEAN :
    pf = [NoExtraction EXCEPT !.phase = "args", !.name = name, !.entries = entries,
                              !.files = files, !.exists = exists]

\* process_fetch_item with unzip_to: extract_archive on the cached file
ExtractArchive ==
  /\ pf.phase = "args"
  /\ pf' = [pf EXCEPT !.phase = "done", !.via = "recipe",
                      !.result = extract_archive(PathJoin(get_cache_dir, pf.name), pf.entries,
                                                 pf.extract_to, pf.files)]
  /\ UNCHANGED << fsVars, rcVars >>

\* fetch_direct_url with unzip_to, the download over
DirectExtract ==
  /\ pf.phase = "args"
  /\ pf' = [pf EXCEPT !.phase = "done", !.via = "direct",
                      !.result = fetch_direct_url_extract(pf.name, pf.entries, pf.extract_to, pf.files)]
  /\ UNCHANGED << fsVars, rcVars >>

\* fetch_github_release with unzip_to, the asset in the cache
ExtractWithOptions ==
  /\ pf.phase = "args"
  /\ pf' = [pf EXCEPT !.phase = "done", !.via = "github",
                      !.result = extract_archive_with_options(pf.name, pf.entries, pf.extract_to,
                                                              pf.files, pf.exists)]
  /\ UNCHANGED << fsVars, rcVars >>

NextExtract ==
  \/ ExtractArchive
  \/ DirectExtract
  \/ ExtractWithOptions

(***************************************************************************)
(* archive/utils.rs: should_flatten_directory, flatten_directory_structure *)
(* and copy_dir_all on a directory tree, path -> content or Directory.     *)
(***************************************************************************)
\* the name of the temporary directory: "_zipget_temp_" and the process id
TempDirName == "_zipget_temp_7"

\* all that is below a directory
Under(tree, d) == {q \in DOMAIN tree : StartsWith(q, d \o "/")}

\* fs::read_dir: the entries of a directory
ReadDir(tree, d) == {q \in DOMAIN tree : PathParent(q) = d}

\* a path below base, without base
Rel(path, base) == SubSeq(path, Len(base) + 1, Len(path))

\* the files and directories of m put over those of tree
Merge(tree, m) == [q \in DOMAIN tree \cup DOMAIN m |-> IF q \in DOMAIN m THEN m[q] ELSE tree[q]]

\* fs::copy and copy_dir_all of the entries srcs of the directory from: each entry
\* and all below it, at the same name in the directory to
CopiedEntries(tree, from, srcs, to) ==
  [q \in {to \o Rel(x, from) : x \in UNION {{e} \cup Under(tree, e) : e \in srcs}} |->
     tree[from \o Rel(q, to)]]

\* fs::remove_dir_all
RemoveDirAll(tree, d) == [q \in DOMAIN tree \ ({d} \cup Under(tree, d)) |-> tree[q]]

\* should_flatten_directory: the name of the only entry when that is a directory
should_flatten_directory(tree, extract_to) ==
  IF extract_to \notin DOMAIN tree THEN None
  ELSE IF Cardinality(ReadDir(tree, extract_to)) # 1 THEN None
  ELSE IF \E e \in ReadDir(tree, extract_to) : tree[e] # Directory THEN None
  ELSE Some(PathFileName(CHOOSE e \in ReadDir(tree, extract_to) : TRUE))

\* flatten_directory_structure, the first loop and the removal of the single
\* directory: its entries are in the temporary directory
Staged(tree, single_dir_path, temp_dir) ==
  RemoveDirAll(Merge(CreateDirAll(tree, temp_dir),
                     CopiedEntries(tree, single_dir_path, ReadDir(tree, single_dir_path), temp_dir)),
               single_dir_path)

\* the second loop when no entry has the name of the temporary directory, and
\* the removal of the temporary directory
MovedBack(staged, extract_to, temp_dir) ==
  { [ok |-> TRUE,
     tree |-> RemoveDirAll(Merge(staged, CopiedEntries(staged, temp_dir, ReadDir(staged, temp_dir),
                                                       extract_to)),
                           temp_dir)] }

\* the second loop when a file has the name of the temporary directory: fs::copy
\* onto the directory fails, after some of the other entries were copied
CopyOntoTemp(staged, extract_to, temp_dir, clash) ==
  { [ok |-> FALSE, tree |-> Merge(staged, CopiedEntries(staged, temp_dir, done, extract_to))] :
      done \in SUBSET (ReadDir(staged, temp_dir) \ {clash}) }

\* the second loop when a directory has the name of the temporary directory, once
\* copy_dir_all has put its entries into the temporary directory: the entries not
\* yet copied, and those of the new ones read_dir yields, are copied
AfterMergeIntoTemp(merged, extract_to, temp_dir, later, new) ==
  { [ok |-> TRUE,
     tree |-> RemoveDirAll(Merge(merged, CopiedEntries(merged, temp_dir, later \cup seen, extract_to)),
                           temp_dir)] : seen \in SUBSET new }

MergeIntoTemp(copied, extract_to, temp_dir, clash, entries, before) ==
  AfterMergeIntoTemp(Merge(copied, CopiedEntries(copied, clash, ReadDir(copied, clash), temp_dir)),
                     extract_to, temp_dir, entries \ (before \cup {clash}),
                     {temp_dir \o Rel(e, clash) : e \in ReadDir(copied, clash)} \ entries)

CopyIntoTemp(staged, extract_to, temp_dir, clash) ==
  UNION { MergeIntoTemp(Merge(staged, CopiedEntries(staged, temp_dir, before, extract_to)),
                        extract_to, temp_dir, clash, ReadDir(staged, temp_dir), before) :
            before \in SUBSET (ReadDir(staged, temp_dir) \ {clash}) }

\* the second loop and the removal of the temporary directory; read_dir yields the
\* entries in any order
SecondLoop(staged, extract_to, temp_dir, clash) ==
  IF clash \notin DOMAIN staged THEN MovedBack(staged, extract_to, temp_dir)
  ELSE IF staged[clash] # Directory THEN CopyOntoTemp(staged, extract_to, temp_dir, clash)
  ELSE CopyIntoTemp(staged, extract_to, temp_dir, clash)

\* flatten_directory_structure: what it may return and leave behind
flatten_directory_structure(tree, extract_to, single_dir_name) ==
  SecondLoop(Staged(tree, PathJoin(extract_to, single_dir_name), PathJoin(extract_to, TempDirName)),
             extract_to, PathJoin(extract_to, TempDirName),
             PathJoin(PathJoin(extract_to, TempDirName), TempDirName))

\* the files and the empty directories the trees are put together from
TreeLeaves ==
  { [path |-> "out/f", content |-> "1"], [path |-> "out/e", content |-> Directory],
    [path |-> "out/d", content |-> Directory],
    [path |-> "out/d/f", content |-> "2"], [path |-> "out/d/g", content |-> "3"],
    [path |-> "out/d/d", content |-> "4"], [path |-> "out/d/d/f", content |-> "5"],
    [path |-> "out/d/s", content |-> Directory], [path |-> "out/d/s/f", content |-> "6"],
    [path |-> PathJoin("out/d", TempDirName), content |-> "7"],
    [path |-> PathJoin(PathJoin("out/d", TempDirName), "f"), content |-> "8"] }

\* the tree with these leaves and the directories above them
RECURSIVE TreeOf(_)
TreeOf(leaves) ==
  IF leaves = {} THEN [q \in {"out"} |-> Directory]
  ELSE LET l == CHOOSE x \in leaves : TRUE
       IN  Written(TreeOf(leaves \ {l}), CreateDirAll(TreeOf(leaves \ {l}), PathParent(l.path)),
                   l.path, l.content)

\* no file is a directory of another leaf
Consistent(leaves) ==
  \A a, b \in leaves : a.content # Directory => ~StartsWith(b.path, a.path \o "/")

Trees == { TreeOf(leaves) : leaves \in {S \in SUBSET TreeLeaves : Consistent(S)} } \cup { << >> }

\* no call of the flattening yet
NoFlatten ==
  [phase |-> "none", extract_to |-> "out", before |-> << >>, single |-> None, ok |-> TRUE,
   after |-> << >>]

InitFlatten == \E tree \in Trees : pf = [NoFlatten EXCEPT !.phase = "tree", !.before = tree]

\* should_flatten_directory(extract_to)
ShouldFlatten ==
  /\ pf.phase = "tree"
  /\ pf' = [pf EXCEPT !.phase = "asked", !.single = should_flatten_directory(pf.before, pf.extract_to),
                      !.after = pf.before]
  /\ UNCHANGED << fsVars, rcVars >>

\* flatten_directory_structure(extract_to, dir_name) when a name was returned
FlattenStructure ==
  /\ pf.phase = "asked" /\ IsSome(pf.single)
  /\ \E r \in flatten_directory_structure(pf.before, pf.extract_to, Unwrap(pf.single)) :
       pf' = [pf EXCEPT !.phase = "flattened", !.ok = r.ok, !.after = r.tree]
  /\ UNCHANGED << fsVars, rcVars >>

NextFlatten ==
  \/ ShouldFlatten
  \/ FlattenStructure

(***************************************************************************)
(* Calls of the two selections of an asset, download/github.rs and         *)
(* recipe.rs find_best_matching_binary, on the assets of a release.        *)
(***************************************************************************)
\* the assets the releases are put together from
AssetPool ==
  { GitHubAsset("t-linux-x86_64.tar.gz", "u1", 5000),
    GitHubAsset("t-src-linux-x86_64-musl.tar.gz", "u2", 5000),
    GitHubAsset("t-gnu.zip", "u3", 5000),
    GitHubAsset("t-linux-arm64-musl.tar.gz", "u4", 5000),
    GitHubAsset("t.tar.gz", "u5", 5000),
    GitHubAsset("t-linux-amd64.deb", "u6", 5000),
    GitHubAsset("t-windows-x86_64.zip", "u7", 5000),
    GitHubAsset("t-linux", "u8", 5000),
    GitHubAsset("t-amd64", "u9", 500),
    GitHubAsset("T-Debug-Linux.tar.zst", "u10", 5000) }

\* no selection yet
NoSelection ==
  [phase |-> "none", assets |-> << >>, via |-> "", scores |-> << >>, result |-> None]

InitSelection ==
  \E assets \in SeqsUpTo(AssetPool, MaxAssets) :
    pf = [NoSelection EXCEPT !.phase = "assets", !.assets = assets]

\* download/github.rs find_best_matching_binary(&release.assets); scores are the
\* scores it gave
SelectGithub ==
  /\ pf.phase = "assets"
  /\ pf' = [pf EXCEPT !.phase = "selected", !.via = "github",
                      !.scores = [i \in DOMAIN pf.assets |-> Some(GithubScore(pf.assets[i], OS, ARCH))],
                      !.result = github_find_best_matching_binary(pf.assets)]
  /\ UNCHANGED << fsVars, rcVars >>

\* recipe.rs find_best_matching_binary(&release.assets); an asset the filter
\* drops has no score
SelectRecipe ==
  /\ pf.phase = "assets"
  /\ pf' = [pf EXCEPT !.phase = "selected", !.via = "recipe",
                      !.scores = [i \in DOMAIN pf.assets |->
                                    IF IsCandidate(pf.assets[i])
                                    THEN Some(AssetScore(pf.assets[i], OS, ARCH)) ELSE None],
                      !.result = find_best_matching_binary(pf.assets)]
  /\ UNCHANGED << fsVars, rcVars >>

NextSelect ==
  \/ SelectGithub
  \/ SelectRecipe

NoDownload ==
  /\ dlUrl = "" /\ dlBody = << >> /\ srcExists = FALSE /\ finalPath = "" /\ tmpPath = ""
  /\ dir = << >> /\ inodes = << >> /\ wk = << >> /\ pf = NoCall

InitRecipe ==
  /\ NoDownload
  /\ \E app \in AppItems :
       recipeFile = [vars |-> [base |-> "h://x"], items |-> [app |-> app, lib |-> LibItem]]
  /\ cache \in InitialCaches
  /\ saved = << >>
  /\ extracted = {}
  /\ run = NoRun
  /\ last = NoLast
  /\ fetchedOk = {}
  /\ ops = 0

\* runs of a recipe in normal and in lock mode
NextRecipe ==
  \/ StartNormal
  \/ StartLock
  \/ NormalItem
  \/ NormalFinish
  \/ LockItem
  \/ LockFinish

SpecRecipe == InitRecipe /\ [][NextRecipe]_vars

\* normal-mode runs and the fetch commands
NextFetch ==
  \/ StartNormal
  \/ NormalItem
  \/ NormalFinish
  \/ FetchDirect
  \/ FetchGithub

SpecFetch == InitRecipe /\ [][NextFetch]_vars

\* the recipes of the runs with all options: the app item has no lock table
ModeItems == {MakeItem(src, None, out) : src \in ItemSources, out \in ItemOutputs}

InitModes ==
  /\ NoDownload
  /\ \E app \in ModeItems :
       recipeFile = [vars |-> [base |-> "h://x"], items |-> [app |-> app, lib |-> LibItem]]
  /\ cache \in InitialCaches
  /\ saved = << >>
  /\ extracted = {}
  /\ run = NoRun
  /\ last = NoLast
  /\ fetchedOk = {}
  /\ ops = 0

\* runs of a recipe with every combination of --upgrade, --dry, --lock and a tag
NextModes ==
  \/ ProcessRecipe
  \/ NormalItem
  \/ NormalFinish
  \/ LockItem
  \/ LockFinish
  \/ DryItem
  \/ DryFinish
  \/ UpgradeItem
  \/ UpgradeFinish

SpecModes == InitModes /\ [][NextModes]_vars

\* no recipe run beside the workers of the download cache
NoRecipe ==
  /\ cache = << >> /\ recipeFile = EmptyRecipe /\ saved = << >> /\ extracted = {} /\ run = NoRun
  /\ last = NoLast /\ fetchedOk = {} /\ ops = 0 /\ pf = NoCall

\* no download and no recipe run beside a call of substitute
Idle ==
  /\ dlUrl = "" /\ dlBody = << >> /\ srcExists = FALSE /\ finalPath = "" /\ tmpPath = ""
  /\ dir = << >> /\ inodes = << >> /\ wk = << >>
  /\ cache = << >> /\ recipeFile = EmptyRecipe /\ saved = << >> /\ extracted = {} /\ run = NoRun
  /\ last = NoLast /\ fetchedOk = {} /\ ops = 0

\* substitute on every input of up to MaxTokens fragments
InitSubst == Idle /\ InitCall(SubstVars, {<< >>}, SeqsUpTo(Tokens, MaxTokens))

SpecSubst == InitSubst /\ [][NextSubst]_vars

\* VarContext::new on every layering of built-ins, [vars] and --set, and the
\* lookup of a name
InitVars ==
  Idle /\ InitCall(LayerVars, SeqsUpTo(CliPairs, MaxOverrides),
                   { << "${" \o n \o "}" >> : n \in LayerNames \cup {"arch"} })

SpecVars == InitVars /\ [][NextSubst]_vars

\* the three places that extract, on every file name, archive and filter
InitExtract == Idle /\ InitExtraction

SpecExtract == InitExtract /\ [][NextExtract]_vars

\* the two selections on every release of up to MaxAssets assets
InitSelect == Idle /\ InitSelection

SpecSelect == InitSelect /\ [][NextSelect]_vars

\* the flattening of every tree
InitFlattening == Idle /\ InitFlatten

SpecFlatten == InitFlattening /\ [][NextFlatten]_vars

(***************************************************************************)
(* Specifications of the download cache.                                   *)
(***************************************************************************)
HttpUrls == {"h://x/a.zip", "h://x/a", "h://x/a.tar.gz?t=1"}

LocalUrls == {"/srv/a.zip", "./a"}

IdleWorker == [pc |-> "start", fd |-> 0, off |-> 0, used |-> None]

\* the cache before a fetch: no entry under the final name; a temporary file of
\* an interrupted earlier download may be there
InitCache(urls, workers) ==
  /\ dlUrl \in urls
  /\ finalPath = cached_file_path(dlUrl)
  /\ tmpPath = temp_path(finalPath)
  /\ dlBody \in Bodies
  /\ wk = [w \in workers |-> IdleWorker]
  /\ \E stale \in BOOLEAN :
       /\ inodes = IF stale THEN << << 2 >> >> ELSE << >>
       /\ dir = [p \in {finalPath, tmpPath} |-> IF stale /\ p # finalPath THEN 1 ELSE 0]

NextHttp ==
  \/ \E w \in DOMAIN wk : CheckCache(w)
  \/ \E w \in DOMAIN wk : HttpCall(w)
  \/ \E w \in DOMAIN wk : HttpCreateTemp(w)
  \/ \E w \in DOMAIN wk : HttpCopy(w)
  \/ \E w \in DOMAIN wk : HttpSync(w)
  \/ \E w \in DOMAIN wk : HttpMetadata(w)
  \/ \E w \in DOMAIN wk : HttpRename(w)

NextLocal ==
  \/ \E w \in DOMAIN wk : CheckCache(w)
  \/ \E w \in DOMAIN wk : LocalCheck(w)
  \/ \E w \in DOMAIN wk : LocalOpen(w)
  \/ \E w \in DOMAIN wk : LocalCopy(w)

\* one call of download_http_file
InitHttpSingle == InitCache(HttpUrls, {1}) /\ srcExists = FALSE /\ NoRecipe

SpecHttpSingle == InitHttpSingle /\ [][NextHttp]_vars

\* MaxWorkers workers fetch the same URL
InitHttpRace == InitCache(HttpUrls, 1..MaxWorkers) /\ srcExists = FALSE /\ NoRecipe

SpecHttpRace == InitHttpRace /\ [][NextHttp]_vars

\* MaxWorkers workers (or runs) fetch the same local source
InitLocal == InitCache(LocalUrls, 1..MaxWorkers) /\ srcExists \in BOOLEAN /\ NoRecipe

SpecLocal == InitLocal /\ [][NextLocal]_vars

(***************************************************************************)
(* Claims about the download cache.                                        *)
(***************************************************************************)
Downloading(w) == wk[w].pc \in {"copy", "sync", "metadata", "rename"}

Finished(w) == wk[w].pc \in {"ok", "failed", "hit"}

\* C2: during and after one call of download_http_file with the final path absent
\* beforehand, whatever the outcome, the final path does not exist or holds the
\* complete response body; the body is written to the .tmp-suffixed sibling of the
\* final path, never to the file the final path names.
C2_FinalAbsentOrComplete ==
  /\ Exists(finalPath) => FileContent(finalPath) = dlBody
  /\ \A w \in DOMAIN wk :
       Downloading(w) =>
         /\ dir[finalPath] # wk[w].fd
         /\ dir[tmpPath] = wk[w].fd
         /\ EndsWith(tmpPath, ".tmp")
         /\ SubSeq(tmpPath, 1, LastIndexOf(tmpPath, "/")) = SubSeq(finalPath, 1, LastIndexOf(finalPath, "/"))

\* C2 witness: the stream failed after a part of the body had been written
C2_Witness ==
  \E w \in DOMAIN wk :
    wk[w].pc = "failed" /\ wk[w].off >= 1 /\ wk[w].off < Len(dlBody) /\ ~Exists(finalPath) /\ ~Exists(tmpPath)

\* C3: when two workers fetch the same never-cached URL and both download, then in
\* every interleaving no partial file is visible under the final cache path, and
\* once all are done and at least one succeeded, the final path holds the complete
\* artifact.
C3_RaceKeepsCacheWhole ==
  (\A w \in DOMAIN wk : wk[w].pc \notin {"start", "hit"}) =>
    /\ Exists(finalPath) => FileContent(finalPath) = dlBody
    /\ ((\A w \in DOMAIN wk : Finished(w)) /\ (\E w \in DOMAIN wk : wk[w].pc = "ok")) =>
         (Exists(finalPath) /\ FileContent(finalPath) = dlBody)

\* C4: no worker (and no later run) takes a cache hit on a partially written copy
\* of a local source, also when the copy fails part-way.
C4_LocalCopyAtomic ==
  \A w \in DOMAIN wk : wk[w].pc = "hit" => wk[w].used = Some(dlBody)

(***************************************************************************)
(* Properties of the recipe runs and of the fetch commands.  last is what  *)
(* the item processed last did; run is the run it belongs to.              *)
(***************************************************************************)
\* the item processed last has a lock.sha that is not the digest of the file it fetched
ShaMismatch ==
  /\ IsSome(last.fetched)
  /\ IsSome(last.item.lock)
  /\ IsSome(Unwrap(last.item.lock).sha)
  /\ to_lowercase(Unwrap(Unwrap(last.item.lock).sha)) # compute_sha256(Unwrap(last.fetched))

\* the item processed last has a lock.download_url
HasLockedUrl == IsSome(last.item.lock) /\ IsSome(Unwrap(last.item.lock).download_url)

\* C1: in normal mode, an item whose lock.sha differs (case-insensitively) from the
\* SHA-256 of the fetched artifact fails: process_fetch_item returns an error, the
\* extraction is not started, no warning stands in for the error, and the run
\* counts the item as failed.
C1_ShaMismatchFailsItem ==
  (last.kind = "normal" /\ ShaMismatch) =>
    /\ ~last.ok
    /\ last.err \in {VerificationFailed, "Failed to copy file"}
    /\ ~last.started
    /\ ~last.warned
    /\ last.section \in run.failed

\* C1 witness: an item with unzip_to set failed the digest check
C1_Witness ==
  /\ last.kind = "normal" /\ ShaMismatch
  /\ IsSome(last.item.unzip_to)
  /\ last.err = VerificationFailed

\* C5: once a fetch of a URL has succeeded, every later fetch of the same URL, by a
\* recipe item, by the github command or by the direct-URL command, is a cache hit
\* and calls no transport.
C5_LaterFetchIsCacheHit ==
  (last.kind \in {"normal", "direct", "github"} /\ last.okBefore) =>
    (last.hit /\ ~last.transport)

\* C6 (amended): in normal mode an item whose lock.download_url is set is
\* downloaded from lock.download_url, whatever its url and github fields say, and
\* sends no request to the release API.
C6_NormalModeUsesLockedUrl ==
  (last.kind = "normal" /\ HasLockedUrl) =>
    (last.url = Unwrap(Unwrap(last.item.lock).download_url) /\ last.api = 0)

\* C6 witness: an item with a github table was fetched from its lock.download_url
C6_Witness ==
  /\ last.kind = "normal" /\ HasLockedUrl
  /\ IsSome(last.item.github)
  /\ last.ok
  /\ last.url = Unwrap(Unwrap(last.item.lock).download_url)

\* C6 as stated: in every mode, normal and lock, an item whose lock.download_url is
\* set is downloaded from it and sends no request to the release API.
C6_EveryFetchUsesLockedUrl ==
  (last.kind \in {"normal", "lock"} /\ HasLockedUrl) =>
    (last.url = Unwrap(Unwrap(last.item.lock).download_url) /\ last.api = 0)

\* C7: a normal-mode run that is over has attempted every selected item, and its
\* aggregate error holds exactly one message for each failed item and none for
\* another.
C7_EveryItemAttempted ==
  (run.mode = "normal" /\ run.phase = "done") =>
    /\ run.selected \subseteq run.attempted
    /\ {run.errors[i].section : i \in DOMAIN run.errors} = run.failed
    /\ Len(run.errors) = Cardinality(run.failed)
    /\ run.ok = (run.failed = {})

\* C8: a lock run in which an item failed has returned the error at once and has
\* left the recipe file as it was when the run started.
C8_FailedLockRunLeavesFile ==
  (run.mode = "lock" /\ run.phase = "done" /\ ~run.ok) =>
    /\ recipeFile = run.startFile
    /\ ~run.wrote
    /\ ~last.ok
    /\ last.section \in run.failed
    /\ Cardinality(run.failed) = 1

\* C8 witness: the run failed after an earlier item had produced new lock data
C8_Witness ==
  /\ run.mode = "lock" /\ run.phase = "done" /\ ~run.ok
  /\ run.any_updated
  /\ serialize_recipe_with_inline_locks(run.updated_recipe) # run.startFile

\* C9: a lock run that follows a successful lock run of the same recipe file, the
\* origin being the same, finds no item changed and does not write the file.
C9_SecondLockRunChangesNothing ==
  (run.mode = "lock" /\ run.phase = "done" /\ run.relock /\ run.ok) =>
    (~run.any_updated /\ ~run.wrote /\ recipeFile = run.startFile)

\* C10: an item that has not exactly one of url and github, neither or both, fails
\* with the validation error, in normal mode and in lock mode.
C10_ExactlyOneSource ==
  (last.kind \in {"normal", "lock"} /\ (IsSome(last.item.url) <=> IsSome(last.item.github))) =>
    (~last.ok /\ last.err = "FetchItem must have either 'url' or 'github' specified")

\* C11: a run of process_recipe that was invoked with --dry, whatever the other
\* options, sends no request to the network, leaves the cache, the saved files and
\* the extractions as they are, and does not write the recipe file.
C11_DryRunTouchesNothing ==
  [][(run'.opts.dry /\ run'.phase # "idle") =>
       /\ cache' = cache /\ saved' = saved /\ extracted' = extracted
       /\ recipeFile' = recipeFile
       /\ last'.api = 0 /\ ~last'.transport /\ ~last'.hit]_vars

(***************************************************************************)
(* Substitution and the variable context.                                  *)
(***************************************************************************)
\* the fragments with every one in the domain of m replaced by its image
Mapped(toks, m) == [i \in DOMAIN toks |-> IF toks[i] \in DOMAIN m THEN m[toks[i]] ELSE toks[i]]

Range(f) == { f[i] : i \in DOMAIN f }

Substituted == pf.phase \in {"once", "twice"}

\* C12: on an input of references and plain text, substitute fails when a referenced
\* name is not in the context, and otherwise returns the input with every reference
\* replaced by the value of its name, the value being copied as it is: markers and
\* dollars inside a value are not scanned.
C12_ReferencesReplacedLiterally ==
  (Substituted /\ Range(pf.toks) \subseteq {"${a}", "${u}", "x", "/"}) =>
    IF "${u}" \in Range(pf.toks) THEN ~pf.pre.ok
    ELSE pf.pre = Ok(Flatten(Mapped(pf.toks, [r \in {"${a}"} |-> pf.ctx["a"]])))

\* C12 witness: a reference whose value holds a marker and an escape, and the value
\* stands in the result of substitute as it is
C12_Witness ==
  /\ pf.phase = "once" /\ pf.toks = << "x", "${a}", "/" >>
  /\ pf.ctx["a"] = "${b}$$"
  /\ pf.out = Ok("x${b}$$/")

\* C13: on an input without a reference, substitute never fails and looks no name
\* up: every "$$" becomes one "$", before a brace as well, and a "$" that stands
\* before plain text or at the end is copied.
C13_EscapesAndLoneDollars ==
  (/\ Substituted
   /\ Range(pf.toks) \subseteq {"$$", "$", "{a}", "{u}", "x", "/"}
   /\ \A i \in DOMAIN pf.toks :
        pf.toks[i] = "$" => (i = Len(pf.toks) \/ pf.toks[i + 1] \in {"x", "/"})) =>
    pf.pre = Ok(Flatten(Mapped(pf.toks, [r \in {"$$"} |-> "$"])))

\* C13 witness: an escaped reference to a name that is not defined, and a "$" at
\* the end
C13_Witness ==
  /\ pf.phase = "once" /\ pf.toks = << "$$", "{u}", "$" >>
  /\ "u" \notin DOMAIN pf.ctx
  /\ pf.out = Ok("${u}$")

C16_TildeOfValueKept ==
  (/\ Substituted /\ pf.toks # << >>
   /\ Range(pf.toks) \subseteq {"${a}", "x", "/"}
   /\ StartsWith(pf.ctx["a"], "~")) =>
    pf.out = Ok(Flatten(Mapped(pf.toks, [r \in {"${a}"} |-> pf.ctx["a"]])))

\* the layers of a name, the highest first: the last --set of the name, the [vars]
\* table, the built-ins
LayerValue(n) ==
  LET sets == { i \in DOMAIN pf.cli : pf.cli[i].key = n }
      builtin == [os |-> OS, arch |-> ARCH, home |-> HomeDir, recipe_dir |-> RecipeDir]
  IN  IF sets # {} THEN pf.cli[CHOOSE i \in sets : \A j \in sets : j <= i].value
      ELSE IF n \in DOMAIN pf.recipe_vars THEN pf.recipe_vars[n]
      ELSE builtin[n]

\* C17: the value substitute puts in for a name is the value of the highest layer
\* that defines the name: --set over [vars] over the built-ins.
C17_HighestLayerWins ==
  (Substituted /\ \E n \in {"os", "arch", "home", "a"} : pf.toks = << "${" \o n \o "}" >>) =>
    \A n \in {"os", "arch", "home", "a"} :
      (pf.toks = << "${" \o n \o "}" >>) =>
        IF n = "a" /\ "a" \notin DOMAIN pf.recipe_vars /\ \A i \in DOMAIN pf.cli : pf.cli[i].key # "a"
        THEN ~pf.out.ok
        ELSE pf.out = Ok(LayerValue(n))

\* C17 witness: os is defined on all three layers and the --set value is used
C17_Witness ==
  /\ pf.phase = "once" /\ pf.toks = << "${os}" >>
  /\ "os" \in DOMAIN pf.recipe_vars
  /\ \E i \in DOMAIN pf.cli : pf.cli[i].key = "os"
  /\ pf.out = Ok("c1")

(***************************************************************************)
(* The tag filter of a recipe run.                                         *)
(***************************************************************************)
\* C18: in a dry, a normal and a lock run the items gone through are those whose
\* section name contains the tag, all of them without a tag; a section that is not
\* among them is not processed, and its entry in the recipe, in the file as well,
\* stays as it was read.
C18_OnlySelectedItemsProcessed ==
  (run.mode \in {"dry", "normal", "lock"} /\ run.phase # "idle") =>
    /\ run.selected =
         {k \in DOMAIN run.recipe.items : run.tag = None \/ Contains(k, Unwrap(run.tag))}
    /\ run.attempted \subseteq run.selected
    /\ last.kind # "none" => last.section \in run.selected
    /\ \A k \in DOMAIN run.recipe.items \ run.selected :
         /\ run.updated_recipe.items[k] = run.recipe.items[k]
         /\ recipeFile.items[k] = run.startFile.items[k]

\* C18 witness: a lock run with the tag "pp" has given app new lock data and has
\* written the file, and lib, whose name does not contain the tag, was left out
C18_Witness ==
  /\ run.mode = "lock" /\ run.phase = "done" /\ run.tag = Some("pp")
  /\ run.selected = {"app"} /\ run.attempted = {"app"}
  /\ run.wrote /\ recipeFile.items["app"] # run.startFile.items["app"]
  /\ recipeFile.items["lib"] = run.startFile.items["lib"]

(***************************************************************************)
(* The extraction of what was downloaded.                                  *)
(***************************************************************************)
\* C19: each of the places that extract chooses by the suffix of the file name:
\* zip for .zip, gzip and tar for .tar.gz and .tgz, zstd and tar for .tar.zst, and
\* a file with any other suffix is copied into the directory to extract to, when
\* that is there, and made executable.
C19_SameDispatchEverywhere ==
  (pf.phase = "done" /\ pf.via \in {"recipe", "direct", "github"} /\ pf.exists) =>
    /\ pf.result.how =
         IF EndsWith(pf.name, ".zip") THEN "zip"
         ELSE IF EndsWith(pf.name, ".tar.gz") \/ EndsWith(pf.name, ".tgz") THEN "tar.gz"
         ELSE IF EndsWith(pf.name, ".tar.zst") THEN "tar.zst"
         ELSE "copy"
    /\ pf.result.how = "copy" =>
         /\ PathJoin(pf.extract_to, pf.name) \in DOMAIN pf.result.dest
         /\ PathJoin(pf.extract_to, pf.name) \in pf.result.mode755

\* the entries of the archive that are files and that the filter matches, by their
\* whole path or by their file name
MatchedFiles ==
  LET Matches(e) == /\ ~EndsWith(e, "/")
                    /\ \/ glob_match(Unwrap(pf.files), e)
                       \/ glob_match(Unwrap(pf.files), PathFileName(e))
  IN  SelectSeq(pf.entries, Matches)

\* C20: an extraction of a zip or a tar archive with a filter writes the files the
\* filter matches, each to its file name in the directory to extract to, reports
\* these and makes no directory; without a filter every entry stands at its path of
\* the archive below the directory to extract to.
C20_FilteredEntriesFlattened ==
  (pf.phase = "done" /\ pf.via \in {"recipe", "direct", "github"}
     /\ pf.result.how \in {"zip", "tar.gz", "tar.zst"}) =>
    IF IsSome(pf.files)
    THEN /\ pf.result.extracted_files =
              [i \in DOMAIN MatchedFiles |-> PathJoin(pf.extract_to, PathFileName(MatchedFiles[i]))]
         /\ DOMAIN pf.result.dest =
              {pf.extract_to} \cup {pf.result.extracted_files[i] : i \in DOMAIN pf.result.extracted_files}
         /\ \A q \in DOMAIN pf.result.dest \ {pf.extract_to} : pf.result.dest[q] # Directory
    ELSE \A i \in DOMAIN pf.entries :
           /\ PathJoin(pf.extract_to, Trimmed(pf.entries[i])) \in DOMAIN pf.result.dest
           /\ pf.result.dest[PathJoin(pf.extract_to, Trimmed(pf.entries[i]))] =
                IF EndsWith(pf.entries[i], "/") THEN Directory ELSE pf.entries[i]

(***************************************************************************)
(* The flattening of a single top-level directory.                         *)
(***************************************************************************)
\* the only entry of the directory, when there is one and it is a directory
SingleDirectory ==
  IF pf.extract_to \in DOMAIN pf.before
     /\ Cardinality(ReadDir(pf.before, pf.extract_to)) = 1
     /\ \A e \in ReadDir(pf.before, pf.extract_to) : pf.before[e] = Directory
  THEN ReadDir(pf.before, pf.extract_to)
  ELSE {}

\* C21: when the directory holds one entry and that is a directory D, the
\* flattening succeeds, every file and directory that was below D stands at the same
\* relative path directly below the directory, with its content, and D is gone; in
\* every other case should_flatten_directory returns none and nothing is moved.
C21_SingleDirectoryFlattened ==
  /\ (pf.phase = "flattened") =>
       \A D \in SingleDirectory :
         /\ pf.ok
         /\ \A q \in Under(pf.before, D) :
              /\ pf.extract_to \o Rel(q, D) \in DOMAIN pf.after
              /\ pf.after[pf.extract_to \o Rel(q, D)] = pf.before[q]
         /\ D \notin DOMAIN pf.after
  /\ (pf.phase = "asked") =>
       /\ IsSome(pf.single) <=> SingleDirectory # {}
       /\ pf.after = pf.before

(***************************************************************************)
(* The selection of an asset for the running platform.                     *)
(***************************************************************************)
Selecting == pf.phase = "selected" /\ pf.via \in {"github", "recipe"}

SourceName(name) ==
  Contains(to_lowercase(name), "src") \/ Contains(to_lowercase(name), "source")

WrongToken(name) ==
  \E w \in wrong_os_patterns(OS) \cup wrong_arch_patterns(ARCH) : Contains(to_lowercase(name), w)

\* the name holds a pattern of the running OS or architecture and no token of
\* another one
MatchesPlatform(name) ==
  /\ ~WrongToken(name)
  /\ \/ FirstMatch(to_lowercase(name), os_patterns(OS)) >= 0
     \/ FirstMatch(to_lowercase(name), arch_patterns(ARCH)) >= 0

\* C22: when one of the assets is no source package and matches the platform, the
\* asset selected is no source package.
C22_SourcePackageNeverSelected ==
  (Selecting /\ \E i \in DOMAIN pf.assets :
                  ~SourceName(pf.assets[i].name) /\ MatchesPlatform(pf.assets[i].name)) =>
    (IsSome(pf.result) => ~SourceName(Unwrap(pf.result)))

\* the score of a name as the sum of the stated terms, on Linux and x86_64
StatedScore(n) ==
  (IF Contains(n, "linux") THEN 100 ELSE IF Contains(n, "unknown-linux") THEN 90
   ELSE IF Contains(n, "gnu") THEN 80 ELSE 0)
  + (IF Contains(n, "x86_64") THEN 50 ELSE IF Contains(n, "amd64") THEN 45
     ELSE IF Contains(n, "x64") THEN 40 ELSE IF Contains(n, "64") THEN 35 ELSE 0)
  + (IF Contains(n, "musl") THEN 25 ELSE 0)
  + (IF \E e \in {".zip", ".tar.gz", ".tgz", ".tar.zst"} : EndsWith(n, e) THEN 10 ELSE 0)
  - (IF \E w \in {"windows", "win32", "win64", "darwin", "macos", "apple"} : Contains(n, w)
     THEN 100 ELSE 0)
  - (IF \E w \in {"aarch64", "arm64", "armv7", "armhf", "i386", "i686"} : Contains(n, w)
     THEN 100 ELSE 0)
  - (IF Contains(n, "src") \/ Contains(n, "source") THEN 50 ELSE 0)
  - (IF Contains(n, "debug") \/ Contains(n, "symbols") THEN 30 ELSE 0)

StatedScores == [i \in DOMAIN pf.assets |-> StatedScore(to_lowercase(pf.assets[i].name))]

\* C25: the asset selected is the first one of the highest stated score, and none
\* when the list is empty or the highest score is not positive.
C25_FirstOfHighestScore ==
  Selecting =>
    IF \A i \in DOMAIN pf.assets : StatedScores[i] <= 0 THEN pf.result = None
    ELSE pf.result =
           Some(pf.assets[Min({i \in DOMAIN pf.assets :
                                 \A j \in DOMAIN pf.assets : StatedScores[j] <= StatedScores[i]})].name)

\* C26: an asset with a token of another OS or architecture has no higher score
\* than, and is not selected when there is, an asset without such a token and with
\* a positive score.
C26_IncompatibleNeverBeatsCompatible ==
  Selecting =>
    \A a, b \in DOMAIN pf.assets :
      (/\ WrongToken(pf.assets[a].name) /\ ~WrongToken(pf.assets[b].name)
       /\ IsSome(pf.scores[b]) /\ Unwrap(pf.scores[b]) > 0) =>
        /\ IsSome(pf.scores[a]) => Unwrap(pf.scores[a]) <= Unwrap(pf.scores[b])
        /\ pf.result # Some(pf.assets[a].name)

\* C27: the asset selected has an archive extension, or no extension and at least
\* the minimum size.
C27_OnlyArchivesAndRawBinaries ==
  (Selecting /\ IsSome(pf.result)) =>
    \E i \in DOMAIN pf.assets :
      /\ pf.assets[i].name = Unwrap(pf.result)
      /\ \/ \E e \in {".zip", ".tar.gz", ".tgz", ".tar.zst"} : EndsWith(to_lowercase(pf.assets[i].name), e)
         \/ ~Contains(pf.assets[i].name, ".") /\ pf.assets[i].size > 1000

(***************************************************************************)
(* The tag a lock run pins.                                                *)
(***************************************************************************)
\* C23: when a lock run has processed a github item without a tag and has written
\* a tag into it, the download URL it recorded is the URL of an asset of the release
\* with that tag.
C23_PinnedTagIsReleaseOfUrl ==
  (/\ run.mode = "lock" /\ last.kind = "lock" /\ last.ok
   /\ IsSome(last.item.github) /\ ~IsSome(Unwrap(last.item.github).tag)
   /\ IsSome(Unwrap(run.updated_recipe.items[last.section].github).tag)) =>
    \E t \in DOMAIN Releases :
      /\ Unwrap(run.updated_recipe.items[last.section].github).tag = Some(Releases[t].tag_name)
      /\ \E i \in DOMAIN Releases[t].assets :
           Unwrap(run.updated_recipe.items[last.section].lock).download_url
             = Some(Releases[t].assets[i].browser_download_url)


\* C24: when the processing of an item of a normal run has panicked, the run has an
\* error entry for that item and goes on: it is still in its loop, or no item is left.
C24_PanicBecomesItemError ==
  (run.mode = "normal" /\ last.kind = "panic") =>
    /\ \E i \in DOMAIN run.errors : run.errors[i].section = last.section
    /\ run.phase = "running" \/ run.todo = << >>

\* an item without the fields a lock run may set: lock and the tag of github
WithoutLockFields(item) ==
  [item EXCEPT !.lock = None,
               !.github = IF IsSome(item.github)
                          THEN Some([Unwrap(item.github) EXCEPT !.tag = None]) ELSE None]

\* C28: when a lock run has written the recipe file, the file has the vars and the
\* sections it had when the run began, every section the tag filter left out is as it
\* was, and every other section differs at most in lock and in the tag of github.
C28_LockRunChangesLockFieldsOnly ==
  (run.mode = "lock" /\ run.phase = "done" /\ run.wrote) =>
    /\ recipeFile.vars = run.startFile.vars
    /\ DOMAIN recipeFile.items = DOMAIN run.startFile.items
    /\ \A k \in DOMAIN run.startFile.items :
         IF k \in run.selected
         THEN WithoutLockFields(recipeFile.items[k]) = WithoutLockFields(run.startFile.items[k])
         ELSE recipeFile.items[k] = run.startFile.items[k]

\* the step is a turn of the loop of a normal run on an item whose lock.sha is not the
\* digest of the file it fetched
MismatchedItem ==
  /\ run.mode = "normal" /\ run.phase = "running" /\ run'.todo # run.todo
  /\ last'.kind = "normal" /\ IsSome(last'.fetched)
  /\ IsSome(last'.item.lock) /\ IsSome(Unwrap(last'.item.lock).sha)
  /\ ~verify_sha256(Unwrap(last'.fetched), Unwrap(Unwrap(last'.item.lock).sha))

\* C29: a turn of a normal run on an item whose lock.sha does not match the fetched
\* file writes no file to a save_as path and extracts nothing.
C29_MismatchWritesCacheOnly ==
  [][MismatchedItem => (saved' = saved /\ extracted' = extracted)]_vars

\* the item names its download URL itself, in lock.download_url or in url
UrlGiven(item) ==
  (IsSome(item.lock) /\ IsSome(Unwrap(item.lock).download_url)) \/ IsSome(item.url)

GivenUrl(item) ==
  IF IsSome(item.lock) /\ IsSome(Unwrap(item.lock).download_url)
  THEN Unwrap(Unwrap(item.lock).download_url) ELSE Unwrap(item.url)

\* the cache holds, under the name of the URL, a file whose digest is not the item's
\* lock.sha
MismatchCached(item, download_url) ==
  /\ CachePathOf(download_url) \in DOMAIN cache
  /\ ~verify_sha256(cache[CachePathOf(download_url)], Unwrap(Unwrap(item.lock).sha))

\* C30 (amended): once an item that names its download URL itself (lock.download_url
\* or url) has failed the verification of its digest in a normal run, the mismatching
\* file is in the cache under the name of that URL and stays there; every later normal
\* turn on the same item takes the cache hit, sends no request to the release API, does
\* not call the transport and fails again, at the copy to save_as or at the
\* verification. An item that has only a github table asks the release API again.
C30_FailsAgainFromCache ==
  /\ \A m \in run.mismatched :
       UrlGiven(m.item) => MismatchCached(m.item, GivenUrl(m.item))
  /\ (last.kind = "normal" /\ last.failedBefore) =>
       IF UrlGiven(last.item)
       THEN /\ last.hit /\ ~last.transport /\ last.api = 0
            /\ ~last.ok /\ last.err \in {VerificationFailed, "Failed to copy file"}
       ELSE last.api = 1

\* C30 witness: an item with a url failed the verification again, on a cache hit
C30_Witness ==
  /\ last.kind = "normal" /\ last.failedBefore
  /\ UrlGiven(last.item)
  /\ last.hit /\ last.err = VerificationFailed
  /\ MismatchCached(last.item, last.url)

\* C30 as stated: once an item has failed the verification of its digest in a normal
\* run, every later normal turn on the same item takes the cache hit, makes no network
\* call, neither to the release API nor through the transport, and fails the
\* verification again.
C30_EveryLaterRunOffline ==
  (last.kind = "normal" /\ last.failedBefore) =>
    /\ last.hit /\ ~last.transport /\ last.api = 0
    /\ ~last.ok /\ last.err = VerificationFailed
============================================================================
